---- MODULE Spec2Model ----
(***************************************************************************)
(* State-machine model of the VPS lifecycle controller of backend/main.go  *)
(* (type VPSManager): the record store, the port counters, the             *)
(* asynchronous creation pipeline, delete, the expiry timer, listing and   *)
(* the shutdown cleanup, together with the host resources they act on      *)
(* (QEMU processes, instance directories, pidfiles, websockify bridges).   *)
(*                                                                         *)
(* Specifications (all over the same actions):                             *)
(*   Spec          the controller: create, the pipeline, delete, expiry,   *)
(*                 list, QEMU exits, shutdown;                             *)
(*   SpecAPI       the HTTP surface: the requests' remote addresses and    *)
(*                 the responses are recorded, get and progress included;  *)
(*   SpecTime      the clock runs while pipelines are in flight.           *)
(*                                                                         *)
(* Conventions.                                                            *)
(*  - A VM id (uuid.New()) is modelled by the ordinal of its creation:     *)
(*    the n-th CreateVPS call gets id n.  Ids are never reused.            *)
(*  - vps[id] is the VPS object the store, the creation goroutine and the  *)
(*    timers all hold a pointer to; it outlives its removal from the map   *)
(*    m.instances, whose key set is the variable instances.                *)
(*  - Strings that the code inspects character by character (name,         *)
(*    hostname) are sequences of one-character strings.                    *)
(*  - Time is in seconds.  now is the wall clock read by time.Now().       *)
(***************************************************************************)
EXTENDS Integers, Sequences, FiniteSets, TLC

(***************************************************************************)
(* Bounds of the model.                                                    *)
(***************************************************************************)
\* number of CreateVPS calls explored
MaxVMs == 2
\* the clock advances in steps of TickStep seconds ...
TickStep == 3
\* ... while it is at most MaxNow (later it only moves when a timer fires)
MaxNow == 6
\* number of CreateVPS calls explored together with stop, start and restart,
\* and with the metrics collector
MaxLifeVMs == 1
\* number of QEMU processes started (by the pipeline and by StartVPS)
MaxProcs == 2
\* number of stop watchers alive at a time
MaxWatchers == 1
\* number of settle goroutines pending per VM
MaxSettles == 1
\* the clock stops here in SpecHistory (more than 300 ticks of 2 s)
MaxHistoryNow == 606
\* the clock stops here in SpecMetrics
MaxMetricsNow == 6

(***************************************************************************)
(* Program constants.                                                      *)
(***************************************************************************)
StageInitializing == "initializing"
StageCreatingDisk == "creating_disk"
StagePreparingCloudInit == "preparing_cloud_init"
StageStartingQEMU == "starting_qemu"
StageConfigVNC == "configuring_vnc"
StageCompleted == "completed"
StageFailed == "failed"

StatusRunning == "running"
StatusStopped == "stopped"
StatusStarting == "starting"
StatusStopping == "stopping"
StatusRestarting == "restarting"

\* VPS_LIFETIME = 15 * time.Minute, in seconds
VPS_LIFETIME == 15 * 60
SSH_PORT_START == 2200

SUPPORTED_IMAGES ==
    { "ubuntu-22.04", "ubuntu-20.04", "ubuntu-24.04", "debian-11", "debian-12",
      "fedora-38", "fedora-40", "almalinux-8", "almalinux-9", "rocky-8",
      "rocky-9", "centos-7", "centos-9" }

\* the keys of SUPPORTED_TEMPLATES
SUPPORTED_TEMPLATES == { "blank", "docker", "nodejs", "golang", "python" }

\* SUPPORTED_TEMPLATES[template].OSVariants
OSVariants(template) ==
    { "ubuntu-22.04", "ubuntu-20.04", "debian-12", "debian-11", "fedora-40",
      "fedora-38", "rocky-9", "rocky-8", "almalinux-9", "almalinux-8" }
    \cup (IF template = "blank" THEN { "ubuntu-24.04" } ELSE {})

\* validateTemplateAndOS(template, imageType) = nil
validateTemplateAndOS(template, imageType) ==
    /\ template \in SUPPORTED_TEMPLATES
    /\ OSVariants(template) # {} => imageType \in OSVariants(template)

(***************************************************************************)
(* Inputs.                                                                 *)
(***************************************************************************)
IDs == 1..MaxVMs

\* remote addresses of the HTTP clients, in the order in which they first
\* send a request
ClientOrder == << "10.0.0.1", "10.0.0.2" >>

Clients == { ClientOrder[i] : i \in DOMAIN ClientOrder }

\* bodies of POST /api/vps/create: an all-defaults request, one with a
\* hostname the validator rejects, one with an image that is not supported
CreateRequests ==
    { [name |-> <<"n", "1">>, hostname |-> <<>>, image_type |-> "", template |-> ""],
      [name |-> <<"n", "2">>, hostname |-> <<"-", "a">>, image_type |-> "ubuntu-22.04",
       template |-> "blank"],
      [name |-> <<"n", "3">>, hostname |-> <<"a">>, image_type |-> "windows-11",
       template |-> "blank"] }

\* bodies of POST /api/vps/create explored together with stop, start and
\* restart: an all-defaults request, one naming a template that is not in
\* the table, one whose template does not list the image as compatible
LifeRequests ==
    { [name |-> <<"n", "1">>, hostname |-> <<>>, image_type |-> "", template |-> ""],
      [name |-> <<"n", "4">>, hostname |-> <<"a">>, image_type |-> "ubuntu-20.04",
       template |-> "nope"],
      [name |-> <<"n", "5">>, hostname |-> <<"a">>, image_type |-> "centos-7",
       template |-> "blank"] }

(***************************************************************************)
(* isValidHostname (strings are sequences of characters).                  *)
(***************************************************************************)
Letters ==
    { "a", "b", "c", "d", "e", "f", "g", "h", "i", "j", "k", "l", "m", "n", "o",
      "p", "q", "r", "s", "t", "u", "v", "w", "x", "y", "z",
      "A", "B", "C", "D", "E", "F", "G", "H", "I", "J", "K", "L", "M", "N", "O",
      "P", "Q", "R", "S", "T", "U", "V", "W", "X", "Y", "Z" }

Digits == { "0", "1", "2", "3", "4", "5", "6", "7", "8", "9" }

AlphaNum == Letters \cup Digits

\* strings.Split(s, sep) for a one-character separator
RECURSIVE Split(_, _)
Split(s, sep) ==
    IF \A i \in 1..Len(s) : s[i] # sep
    THEN << s >>
    ELSE LET k == CHOOSE i \in 1..Len(s) :
                     s[i] = sep /\ \A j \in 1..(i - 1) : s[j] # sep
         IN  << SubSeq(s, 1, k - 1) >> \o Split(SubSeq(s, k + 1, Len(s)), sep)

MatchesLabel_inner(part) ==
    /\ Len(part) >= 1
    /\ \A i \in 1..Len(part) : part[i] \in AlphaNum \cup { "-" }

\* the regular expression ^[a-zA-Z0-9]([a-zA-Z0-9-]*[a-zA-Z0-9])?$ ($ is
\* the end of the text: Go's regexp has no multi-line mode by default)
MatchesLabel(part) ==
    /\ Len(part) >= 1
    /\ part[1] \in AlphaNum
    /\ part[Len(part)] \in AlphaNum
    /\ \A i \in 1..Len(part) : part[i] \in AlphaNum \cup { "-" }

isValidHostname(hostname) ==
    /\ Len(hostname) <= 253
    /\ LET parts == Split(hostname, ".")
       IN  \A i \in 1..Len(parts) :
               Len(parts[i]) <= 63 /\ MatchesLabel(parts[i])

(***************************************************************************)
(* State.                                                                  *)
(***************************************************************************)
VARIABLES
    instances,    \* key set of m.instances
    vps,          \* id -> the VPS object
    ipInstances,  \* m.ipInstances: client address -> id
    nextVNCPort,  \* m.nextVNCPort
    nextSSHPort,  \* m.nextSSHPort
    mutex,        \* holder of m.mutex: "free", "cleanup" or "start"
    reqClient,    \* id -> remote address of the request that created it
    pc,           \* id -> position of the creation goroutine
    pipeErr,      \* id -> error createVPSWithProgress returned ("" if none)
    baseFiles,    \* image -> state of BASE_DIR/<image>.qcow2: "none" (no file),
                  \* "ready" (converted and resized), "broken" (written by a
                  \* convert step and not resized: a preparation is at work
                  \* on it, or failed after its convert step began)
    dirs,         \* ids whose instance directory disks/<id> exists
    pidFile,      \* id -> content of disks/<id>/qemu.pid (0: no file)
    procs,        \* pid -> [vm, alive]: the QEMU processes ever started
    bridges,      \* ports a websockify process listens on
    timers,       \* id -> wake-up time of its scheduleCleanup goroutine
    expired,      \* id -> time at which its timer removed the record
    now,          \* wall clock
    phase,        \* "serving", "cleaning" (signal received), "exited"
    toClean,      \* ids whose cleanup goroutine has not run yet
    resp,         \* the last HTTP response sent: [op, id, code]
    recording,    \* whether reqClient and resp are recorded (SpecAPI)
    watchers,     \* the watcher goroutines of StopVPS: [vm, pid, at], pid
                  \* being vps.QEMUPid when the powerdown was sent
    settles,      \* id -> number of settle goroutines of RestartVPS pending
    powerdown,    \* pids whose monitor has received system_powerdown
    starter,      \* the StartVPS call that holds the lock: the id it works
                  \* on, the status it found there and the process its
                  \* cmd.Start() left running (id 0: no StartVPS in progress)
    tmpFiles,     \* image -> state of its download in /tmp/vps-download:
                  \* "none" (no file) or "complete"
    metricsCache, \* m.metricsCache: id -> MetricsCache
    metricsMutex, \* holder of m.metricsMutex: "free" or "collector"
    sample,       \* the ResourceMetrics the collector has built and not yet
                  \* stored: [id, metrics], or NoSample
    reader,       \* the id whose cache handleGetMetrics has looked up and
                  \* is about to encode (0: none)
    io,           \* pid -> the byte counters of /proc/<pid>/io
    collector,    \* where collectMetrics is for the locks it takes: "idle",
                  \* "rlocked" (holds m.mutex.RLock), "unlocked" (released
                  \* it, at m.metricsMutex.Lock) or "mlocked" (holds that)
    arg,          \* argument of the function under test (SpecHostname)
    ret           \* its result: << >> (not called yet) or << result >>

vars == << instances, vps, ipInstances, nextVNCPort, nextSSHPort, mutex,
           reqClient, pc, pipeErr, baseFiles, dirs, pidFile, procs, bridges,
           timers, expired, now, phase, toClean, resp, recording, watchers,
           settles, powerdown, starter, tmpFiles, metricsCache, metricsMutex,
           sample, reader, io, collector, arg, ret >>

storeVars == << instances, vps, ipInstances, nextVNCPort, nextSSHPort >>
hostVars == << baseFiles, dirs, pidFile, procs, bridges >>
shutdownVars == << phase, toClean, recording >>
opVars == << watchers, settles, powerdown, starter >>
metricVars == << metricsCache, metricsMutex, sample, reader, io, collector >>
sideVars == << tmpFiles, metricVars, arg, ret >>

\* the collector holds no sample
NoSample == [id |-> 0]

\* the response a handler leaves in resp
Respond(op, id, code) ==
    IF recording THEN [op |-> op, id |-> id, code |-> code] ELSE resp

\* ids for which CreateVPS has been called
Created == DOMAIN vps

\* the id uuid.New() returns next
NewID == Cardinality(DOMAIN vps) + 1

\* the pid the kernel gives the next QEMU process
NewPid == Cardinality(DOMAIN procs) + 1

Max(a, b) == IF a >= b THEN a ELSE b

\* a function without the key k
Without(f, k) == [x \in DOMAIN f \ { k } |-> f[x]]

(***************************************************************************)
(* NewVPSManager: empty store, counters seeded; the base image of every    *)
(* supported image was fetched at start-up unless its preparation failed.  *)
(***************************************************************************)
InitWith(rec) ==
    /\ instances = {}
    /\ vps = << >>
    /\ ipInstances = << >>
    /\ nextVNCPort = 5900
    /\ nextSSHPort = SSH_PORT_START
    /\ mutex = "free"
    /\ reqClient = << >>
    /\ pc = << >>
    /\ pipeErr = << >>
    /\ baseFiles \in { [i \in SUPPORTED_IMAGES |-> "ready"],
                        [i \in SUPPORTED_IMAGES |->
                            IF i = "ubuntu-22.04" THEN "none" ELSE "ready"] }
    /\ dirs = {}
    /\ pidFile = << >>
    /\ procs = << >>
    /\ bridges = {}
    /\ timers = << >>
    /\ expired = << >>
    /\ now = 0
    /\ phase = "serving"
    /\ toClean = {}
    /\ resp = [op |-> "none", id |-> 0, code |-> 0]
    /\ recording = rec
    /\ watchers = {}
    /\ settles = [id \in IDs |-> 0]
    /\ powerdown = {}
    /\ starter = [id |-> 0, from |-> "", cmd |-> 0]
    /\ tmpFiles = [i \in SUPPORTED_IMAGES |-> "none"]
    /\ metricsCache = << >>
    /\ metricsMutex = "free"
    /\ collector = "idle"
    /\ sample = NoSample
    /\ reader = 0
    /\ io = << >>

\* no function is under test
NoCall == arg = << >> /\ ret = << >>

Init == InitWith(FALSE) /\ NoCall

InitAPI == InitWith(TRUE) /\ NoCall

(***************************************************************************)
(* Host-side helpers.                                                      *)
(***************************************************************************)
\* checkProcess(pid) = nil: signal 0 succeeds and the command line is QEMU's.
\* Pid 0 (no process recorded) is never a live QEMU process.
checkProcess(pid) == pid \in DOMAIN procs /\ procs[pid].alive

\* proc.Kill() on pid
Kill(ps, pid) ==
    IF pid \in DOMAIN ps THEN [ps EXCEPT ![pid].alive = FALSE] ELSE ps

\* the port websockify listens on for a VM
WsPort(vncPort) == vncPort + 1000

\* stopWebsockifyProxy: pkill by port pattern
stopWebsockifyProxy(bs, vncPort) == bs \ { WsPort(vncPort) }

\* os.RemoveAll(instanceDir): the directory goes, and the pidfile in it
RemoveDir(ds, id) == ds \ { id }

RemovePidFile(pf, id) == IF id \in DOMAIN pf THEN [pf EXCEPT ![id] = 0] ELSE pf

(***************************************************************************)
(* CreateVPS and its HTTP handler.                                         *)
(***************************************************************************)
\* (variant of NextPort: the counter is not advanced)
NextPort_stuck(p) == p

\* m.nextVNCPort++ / m.nextSSHPort++
NextPort(p) == p + 1

\* the lowest port from base on that no stored record uses
LowestFree(base, used) ==
    CHOOSE p \in base..(base + Cardinality(used)) :
        p \notin used /\ \A q \in base..(p - 1) : q \in used

\* (variant of NewVPS: a first-fit allocator that hands out the lowest port
\* no stored record uses)
NewVPS_firstfit(name, hostname, imageType, template) ==
    [ Name |-> name, Hostname |-> hostname, Status |-> "creating",
      ImageType |-> imageType, Template |-> template, QEMUPid |-> 0,
      VNCPort |-> LowestFree(5900, { vps[i].VNCPort : i \in instances }),
      SSHPort |-> LowestFree(SSH_PORT_START, { vps[i].SSHPort : i \in instances }),
      CreatedAt |-> now, ExpiresAt |-> now' + VPS_LIFETIME,
      ImagePath |-> "", Password |-> "",
      Stage |-> StageInitializing, Progress |-> 0, ErrorMsg |-> "" ]

\* the VPS literal of CreateVPS
NewVPS(name, hostname, imageType, template) ==
    [ Name |-> name, Hostname |-> hostname, Status |-> "creating",
      ImageType |-> imageType, Template |-> template, QEMUPid |-> 0,
      VNCPort |-> nextVNCPort, SSHPort |-> nextSSHPort,
      CreatedAt |-> now, ExpiresAt |-> now' + VPS_LIFETIME,
      ImagePath |-> "", Password |-> "",
      Stage |-> StageInitializing, Progress |-> 0, ErrorMsg |-> "" ]

\* CreateVPS: under the lock, build the record, advance both counters, store
\* the record, start the creation goroutine.
CreateVPS(name, hostname, imageType, template) ==
    /\ mutex = "free"
    /\ vps' = vps @@ (NewID :> NewVPS(name, hostname, imageType, template))
    /\ nextVNCPort' = NextPort(nextVNCPort)
    /\ nextSSHPort' = NextPort(nextSSHPort)
    /\ instances' = instances \cup { NewID }
    /\ pc' = pc @@ (NewID :> "init10")
    /\ pipeErr' = pipeErr @@ (NewID :> "")
    /\ pidFile' = pidFile @@ (NewID :> 0)

\* hasVPSForIP: the client-address index names a stored record that has not
\* expired.  No handler calls it, and nothing ever writes m.ipInstances.
hasVPSForIP(ip) ==
    /\ ip \in DOMAIN ipInstances
    /\ ipInstances[ip] \in instances
    /\ ~(now > vps[ipInstances[ip]].ExpiresAt)

\* the defaults handleCreateVPS fills in
WithDefaults(req) ==
    [ name |-> req.name,
      hostname |-> IF req.hostname = << >>
                   THEN req.name \o << ".", "v", "p", "s", ".", "l", "o", "c", "a", "l" >>
                   ELSE req.hostname,
      image_type |-> IF req.image_type = "" THEN "ubuntu-22.04" ELSE req.image_type,
      template |-> IF req.template = "" THEN "blank" ELSE req.template ]

\* POST /api/vps/create from the remote address client
\* POST /api/vps/create; later is the time that passes between the two
\* calls of time.Now() in CreateVPS (CreatedAt, then ExpiresAt)
handleCreateVPS_At(client, req, later) ==
    /\ phase # "exited"
    /\ NewID <= MaxVMs
    /\ now' = now + later
    /\ LET r == WithDefaults(req)
       IN  CreateVPS(r.name, r.hostname, r.image_type, r.template)
    /\ reqClient' = reqClient @@ (NewID :> IF recording THEN client ELSE "")
    /\ resp' = Respond("create", NewID, 200)
    /\ UNCHANGED << ipInstances, mutex, baseFiles, dirs, procs, bridges, timers,
                    expired, shutdownVars, sideVars, opVars >>

\* the handler when both calls of time.Now() read the same time
handleCreateVPS(client, req) == handleCreateVPS_At(client, req, 0)

\* the handler when the clock moves on between the two calls
handleCreateVPS_Late(client, req) == handleCreateVPS_At(client, req, 1)

(***************************************************************************)
(* createVPSWithProgress, one action per step of the goroutine.            *)
(***************************************************************************)
\* the closure updateProgress
updateProgress(r, stage, progress) ==
    [r EXCEPT !.Stage = stage, !.Progress = progress]

\* (variant of MarkFailed: the failure also resets the progress)
MarkFailed_reset(r, err) ==
    [r EXCEPT !.Status = "failed", !.Stage = StageFailed, !.ErrorMsg = err,
              !.Progress = 0]

\* what the goroutine of CreateVPS writes when the pipeline returned err
MarkFailed(r, err) ==
    [r EXCEPT !.Status = "failed", !.Stage = StageFailed, !.ErrorMsg = err]

\* the goroutine of id is at position at
At(id, at) == phase # "exited" /\ id \in Created /\ pc[id] = at

\* a step that only publishes progress under the lock
ProgressStep(id, at, stage, progress, next) ==
    /\ At(id, at)
    /\ mutex = "free"
    /\ vps' = [vps EXCEPT ![id] = updateProgress(@, stage, progress)]
    /\ pc' = [pc EXCEPT ![id] = next]
    /\ UNCHANGED << instances, ipInstances, nextVNCPort, nextSSHPort, mutex,
                    reqClient, pipeErr, hostVars, timers, expired, now,
                    shutdownVars, sideVars, opVars, resp >>

\* a step that ends the pipeline with error err
Fails(id, err) ==
    /\ pc' = [pc EXCEPT ![id] = "fail"]
    /\ pipeErr' = [pipeErr EXCEPT ![id] = err]

\* updateProgress(init, 10), then the image-type and hostname checks
P_Init10(id) ==
    /\ At(id, "init10")
    /\ mutex = "free"
    /\ vps' = [vps EXCEPT ![id] = updateProgress(@, StageInitializing, 10)]
    /\ IF vps[id].ImageType \notin SUPPORTED_IMAGES
       THEN Fails(id, "unsupported image type")
       ELSE IF ~isValidHostname(vps[id].Hostname)
       THEN Fails(id, "invalid hostname format")
       ELSE pc' = [pc EXCEPT ![id] = "init20"] /\ UNCHANGED pipeErr
    /\ UNCHANGED << instances, ipInstances, nextVNCPort, nextSSHPort, mutex,
                    reqClient, hostVars, timers, expired, now, shutdownVars, sideVars, opVars, resp >>

P_Init20(id) == ProgressStep(id, "init20", StageInitializing, 20, "prepare")

\* os.Stat(base) and downloadAndPrepareBaseImage if the file is missing, then
\* generatePassword and os.MkdirAll(instanceDir); none of it under the lock
P_Prepare(id) ==
    /\ At(id, "prepare")
    /\ LET img == vps[id].ImageType
           missing == baseFiles[img] = "none"
       IN  \E outcome \in { "ok", "download_failed", "convert_failed",
                            "password_failed", "mkdir_failed" } :
             /\ outcome \in { "download_failed", "convert_failed" } => missing
             /\ baseFiles' =
                  IF ~missing THEN baseFiles
                  ELSE IF outcome = "download_failed" THEN baseFiles
                  ELSE IF outcome = "convert_failed"
                  THEN [baseFiles EXCEPT ![img] = "broken"]
                  ELSE [baseFiles EXCEPT ![img] = "ready"]
             /\ vps' = IF outcome \in { "ok", "mkdir_failed" }
                       THEN [vps EXCEPT ![id].Password = "pw"] ELSE vps
             /\ dirs' = IF outcome = "ok" THEN dirs \cup { id } ELSE dirs
             /\ CASE outcome = "ok" ->
                       pc' = [pc EXCEPT ![id] = "disk40"] /\ UNCHANGED pipeErr
                  [] outcome \in { "download_failed", "convert_failed" } ->
                       Fails(id, "failed to prepare base image")
                  [] outcome = "password_failed" ->
                       Fails(id, "failed to generate password")
                  [] outcome = "mkdir_failed" ->
                       Fails(id, "failed to create instance directory")
    /\ UNCHANGED << instances, ipInstances, nextVNCPort, nextSSHPort, mutex,
                    reqClient, pidFile, procs, bridges, timers, expired, now,
                    shutdownVars, sideVars, opVars, resp >>

P_Disk40(id) == ProgressStep(id, "disk40", StageCreatingDisk, 40, "mkdisk")

\* vps.ImagePath = ...; qemu-img create -b base disk.qcow2.  It needs the
\* instance directory and a base file; it may fail for other reasons too.
P_MkDisk(id) ==
    /\ At(id, "mkdisk")
    /\ vps' = [vps EXCEPT ![id].ImagePath = "disk.qcow2"]
    /\ \E ok \in BOOLEAN :
         /\ ok => id \in dirs /\ baseFiles[vps[id].ImageType] # "none"
         /\ IF ok
            THEN pc' = [pc EXCEPT ![id] = "ci60"] /\ UNCHANGED pipeErr
            ELSE Fails(id, "failed to create disk")
    /\ UNCHANGED << instances, ipInstances, nextVNCPort, nextSSHPort, mutex,
                    reqClient, hostVars, timers, expired, now, shutdownVars, sideVars, opVars, resp >>

P_CI60(id) == ProgressStep(id, "ci60", StagePreparingCloudInit, 60, "mkiso")

\* createCloudInitISO: an unknown template falls back to "blank"; the OS
\* family of a supported image is never empty; the ISO is written into the
\* instance directory by the ISO tool, which may fail.
P_MkISO(id) ==
    /\ At(id, "mkiso")
    /\ \E ok \in BOOLEAN :
         /\ ok => id \in dirs
         /\ IF ok
            THEN pc' = [pc EXCEPT ![id] = "q80"] /\ UNCHANGED pipeErr
            ELSE Fails(id, "failed to create cloud-init ISO")
    /\ UNCHANGED << storeVars, mutex, reqClient, hostVars, timers, expired, now,
                    shutdownVars, sideVars, opVars, resp >>

P_Q80(id) == ProgressStep(id, "q80", StageStartingQEMU, 80, "spawn")

\* os.Create(logFile) and cmd.Start() of the daemonizing QEMU.  "up": the
\* daemon runs and has written its pidfile into the instance directory;
\* "exits": the launcher started but QEMU gave up before writing the pidfile.
P_Spawn(id) ==
    /\ At(id, "spawn")
    /\ \E outcome \in { "up", "exits", "log_failed", "start_failed" } :
         /\ outcome = "up" => id \in dirs
         /\ procs' = IF outcome = "up"
                     THEN procs @@ (NewPid :> [vm |-> id, alive |-> TRUE])
                     ELSE procs
         /\ pidFile' = IF outcome = "up"
                       THEN [pidFile EXCEPT ![id] = NewPid] ELSE pidFile
         /\ CASE outcome \in { "up", "exits" } ->
                   pc' = [pc EXCEPT ![id] = "waitpid"] /\ UNCHANGED pipeErr
              [] outcome = "log_failed" -> Fails(id, "failed to create log file")
              [] outcome = "start_failed" -> Fails(id, "failed to start QEMU")
    /\ UNCHANGED << storeVars, mutex, reqClient, baseFiles, dirs, bridges,
                    timers, expired, now, shutdownVars, sideVars, opVars, resp >>

\* the pidfile poll (30 s), checkProcess with 3 tries, then vps.QEMUPid = pid
P_WaitPid(id) ==
    /\ At(id, "waitpid")
    /\ IF pidFile[id] = 0
       THEN Fails(id, "timeout waiting for QEMU to start") /\ UNCHANGED vps
       ELSE IF ~checkProcess(pidFile[id])
       THEN Fails(id, "QEMU process verification failed") /\ UNCHANGED vps
       ELSE /\ vps' = [vps EXCEPT ![id].QEMUPid = pidFile[id]]
            /\ pc' = [pc EXCEPT ![id] = "vnc90"]
            /\ UNCHANGED pipeErr
    /\ UNCHANGED << instances, ipInstances, nextVNCPort, nextSSHPort, mutex,
                    reqClient, hostVars, timers, expired, now, shutdownVars, sideVars, opVars, resp >>

P_Vnc90(id) == ProgressStep(id, "vnc90", StageConfigVNC, 90, "bridge")

\* startWebsockifyProxy: kill any bridge on the port, start a new one; a
\* failure is logged and the pipeline goes on
startWebsockifyProxy(bs, vncPort, ok) ==
    IF ok THEN bs \cup { WsPort(vncPort) } ELSE bs \ { WsPort(vncPort) }

P_Bridge_fatal(id) ==
    /\ At(id, "bridge")
    /\ \E ok \in BOOLEAN :
         IF ok
         THEN /\ bridges' = startWebsockifyProxy(bridges, vps[id].VNCPort, ok)
              /\ pc' = [pc EXCEPT ![id] = "done100"]
              /\ UNCHANGED pipeErr
         ELSE /\ Fails(id, "failed to start websockify")
              /\ UNCHANGED bridges
    /\ UNCHANGED << storeVars, mutex, reqClient, baseFiles, dirs, pidFile, procs,
                    timers, expired, now, shutdownVars, sideVars, opVars, resp >>

P_Bridge(id) ==
    /\ At(id, "bridge")
    /\ \E ok \in BOOLEAN : bridges' = startWebsockifyProxy(bridges, vps[id].VNCPort, ok)
    /\ pc' = [pc EXCEPT ![id] = "done100"]
    /\ UNCHANGED << storeVars, mutex, reqClient, pipeErr, baseFiles, dirs,
                    pidFile, procs, timers, expired, now, shutdownVars, sideVars, opVars, resp >>

P_Done100(id) == ProgressStep(id, "done100", StageCompleted, 100, "running")

\* vps.Status = "running" under the lock, then go m.scheduleCleanup(vps):
\* the timer goroutine starts its time.Sleep(VPS_LIFETIME) now
P_Running(id) ==
    /\ At(id, "running")
    /\ mutex = "free"
    /\ vps' = [vps EXCEPT ![id].Status = "running"]
    /\ timers' = timers @@ (id :> now + VPS_LIFETIME)
    /\ pc' = [pc EXCEPT ![id] = "done"]
    /\ UNCHANGED << instances, ipInstances, nextVNCPort, nextSSHPort, mutex,
                    reqClient, pipeErr, hostVars, expired, now, shutdownVars, sideVars, opVars, resp >>

\* the error branch of the goroutine started by CreateVPS
P_Fail(id) ==
    /\ At(id, "fail")
    /\ mutex = "free"
    /\ vps' = [vps EXCEPT ![id] = MarkFailed(@, pipeErr[id])]
    /\ pc' = [pc EXCEPT ![id] = "failed"]
    /\ UNCHANGED << instances, ipInstances, nextVNCPort, nextSSHPort, mutex,
                    reqClient, pipeErr, hostVars, timers, expired, now,
                    shutdownVars, sideVars, opVars, resp >>

Pipeline(id) ==
    \/ P_Init10(id) \/ P_Init20(id) \/ P_Prepare(id) \/ P_Disk40(id)
    \/ P_MkDisk(id) \/ P_CI60(id) \/ P_MkISO(id) \/ P_Q80(id) \/ P_Spawn(id)
    \/ P_WaitPid(id) \/ P_Vnc90(id) \/ P_Bridge(id) \/ P_Done100(id)
    \/ P_Running(id) \/ P_Fail(id)

(***************************************************************************)
(* downloadAndPrepareBaseImage step by step, as createVPSWithProgress      *)
(* calls it when os.Stat finds no base file (SpecImage).                   *)
(***************************************************************************)
\* the positions of a creation goroutine inside downloadAndPrepareBaseImage
PrepSteps == { "download", "convert", "resize" }

\* defer os.RemoveAll(tmpDir): the download directory is shared by all
\* preparations
RemoveTmpDir == [i \in SUPPORTED_IMAGES |-> "none"]

\* os.Stat(baseImagePath) reports that the file does not exist: enter
\* downloadAndPrepareBaseImage, os.MkdirAll(tmpDir)
Prep_Begin(id) ==
    /\ At(id, "prepare")
    /\ baseFiles[vps[id].ImageType] = "none"
    /\ pc' = [pc EXCEPT ![id] = "download"]
    /\ UNCHANGED << storeVars, mutex, reqClient, pipeErr, hostVars, timers,
                    expired, now, shutdownVars, resp, opVars, sideVars >>

\* wget -O tmpImagePath imageURL
Prep_Download(id) ==
    /\ At(id, "download")
    /\ \E ok \in BOOLEAN :
         IF ok
         THEN /\ tmpFiles' = [tmpFiles EXCEPT ![vps[id].ImageType] = "complete"]
              /\ pc' = [pc EXCEPT ![id] = "convert"]
              /\ UNCHANGED pipeErr
         ELSE /\ tmpFiles' = RemoveTmpDir
              /\ Fails(id, "failed to prepare base image")
    /\ UNCHANGED << storeVars, mutex, reqClient, hostVars, timers, expired, now,
                    shutdownVars, resp, opVars, metricVars, arg, ret >>

\* qemu-img convert tmpImagePath baseImagePath: it succeeds only if the
\* downloaded file is still there; when it fails after opening its source
\* it leaves a partly written target
Prep_Convert(id) ==
    /\ At(id, "convert")
    /\ LET img == vps[id].ImageType
       IN  \E ok \in BOOLEAN :
             /\ ok => tmpFiles[img] = "complete"
             /\ baseFiles' = IF tmpFiles[img] = "complete"
                             THEN [baseFiles EXCEPT ![img] = "broken"]
                             ELSE baseFiles
             /\ IF ok
                THEN /\ pc' = [pc EXCEPT ![id] = "resize"]
                     /\ UNCHANGED << pipeErr, tmpFiles >>
                ELSE /\ tmpFiles' = RemoveTmpDir
                     /\ Fails(id, "failed to prepare base image")
    /\ UNCHANGED << storeVars, mutex, reqClient, dirs, pidFile, procs, bridges,
                    timers, expired, now, shutdownVars, resp, opVars, metricVars,
                    arg, ret >>

\* qemu-img resize baseImagePath, os.Chmod, return: the creation goes on
\* with generatePassword and os.MkdirAll
Prep_Resize(id) ==
    /\ At(id, "resize")
    /\ tmpFiles' = RemoveTmpDir
    /\ LET img == vps[id].ImageType
       IN  \E ok \in BOOLEAN :
             /\ ok => baseFiles[img] # "none"
             /\ IF ok
                THEN /\ baseFiles' = [baseFiles EXCEPT ![img] = "ready"]
                     /\ pc' = [pc EXCEPT ![id] = "prepare"]
                     /\ UNCHANGED pipeErr
                ELSE /\ UNCHANGED baseFiles
                     /\ Fails(id, "failed to prepare base image")
    /\ UNCHANGED << storeVars, mutex, reqClient, dirs, pidFile, procs, bridges,
                    timers, expired, now, shutdownVars, resp, opVars, metricVars,
                    arg, ret >>

(***************************************************************************)
(* DeleteVPS, its HTTP handler and the expiry timer.                       *)
(***************************************************************************)
\* the loop of DeleteVPS over m.ipInstances: drop one entry that maps to id
RemoveIP(m, id) ==
    IF \E ip \in DOMAIN m : m[ip] = id
    THEN Without(m, CHOOSE ip \in DOMAIN m : m[ip] = id)
    ELSE m

\* (variant of RemoveInstance: the record stays in the map)
RemoveInstance_keep(s, id) == s

\* delete(m.instances, id)
RemoveInstance(s, id) == s \ { id }

\* DeleteVPS for an id that is in the store; the whole body runs under the
\* lock: drop the IP association, stop the bridge, kill vps.QEMUPid if it is
\* positive, remove the instance directory, remove the record.
DeleteVPS(id) ==
    /\ ipInstances' = RemoveIP(ipInstances, id)
    /\ bridges' = stopWebsockifyProxy(bridges, vps[id].VNCPort)
    /\ procs' = IF vps[id].QEMUPid > 0 THEN Kill(procs, vps[id].QEMUPid) ELSE procs
    /\ dirs' = RemoveDir(dirs, id)
    /\ pidFile' = RemovePidFile(pidFile, id)
    /\ instances' = RemoveInstance(instances, id)

\* the status handleDeleteVPS answers with
DeleteCode(id) == IF id \in instances THEN 200 ELSE 500

\* DELETE /api/vps/delete?id=
handleDeleteVPS(id) ==
    /\ phase # "exited"
    /\ mutex = "free"
    /\ IF id \in instances
       THEN DeleteVPS(id)
       ELSE UNCHANGED << ipInstances, bridges, procs, dirs, pidFile, instances >>
    /\ resp' = Respond("delete", id, DeleteCode(id))
    /\ UNCHANGED << vps, nextVNCPort, nextSSHPort, mutex, reqClient, pc, pipeErr,
                    baseFiles, timers, expired, now, shutdownVars, sideVars, opVars >>

\* scheduleCleanup: time.Sleep(VPS_LIFETIME) returns, then DeleteVPS(vps.ID),
\* whose error is dropped.  The sleep returns when the clock reaches the
\* wake-up time; timers wake in the order of their wake-up times.
scheduleCleanup(id) ==
    /\ phase # "exited"
    /\ id \in DOMAIN timers
    /\ \A other \in DOMAIN timers : timers[other] >= timers[id]
    /\ mutex = "free"
    /\ now' = Max(now, timers[id])
    /\ timers' = Without(timers, id)
    /\ IF id \in instances
       THEN DeleteVPS(id) /\ expired' = expired @@ (id :> now')
       ELSE UNCHANGED << ipInstances, bridges, procs, dirs, pidFile, instances,
                         expired >>
    /\ UNCHANGED << vps, nextVNCPort, nextSSHPort, mutex, reqClient, pc, pipeErr,
                    baseFiles, shutdownVars, sideVars, opVars, resp >>

(***************************************************************************)
(* Reads: list, get, progress.                                             *)
(***************************************************************************)
\* validateInstances: every stored record whose QEMUPid is not a live QEMU
\* process gets status "stopped"
validateInstances(v) ==
    [id \in DOMAIN v |->
        IF id \in instances /\ ~checkProcess(v[id].QEMUPid)
        THEN [v[id] EXCEPT !.Status = "stopped"]
        ELSE v[id]]

\* GET /api/vps/list: validateInstances, then ListVPS
handleListVPS ==
    /\ phase # "exited"
    /\ mutex = "free"
    /\ vps' = validateInstances(vps)
    /\ resp' = Respond("list", 0, 200)
    /\ UNCHANGED << instances, ipInstances, nextVNCPort, nextSSHPort, mutex,
                    reqClient, pc, pipeErr, hostVars, timers, expired, now,
                    shutdownVars, sideVars, opVars >>

\* the status handleGetVPS and handleGetProgress answer with
GetCode(id) == IF id \in instances THEN 200 ELSE 404

\* GET /api/vps/get?id=
handleGetVPS(id) ==
    /\ phase # "exited"
    /\ mutex = "free"
    /\ resp' = Respond("get", id, GetCode(id))
    /\ UNCHANGED << storeVars, mutex, reqClient, pc, pipeErr, hostVars, timers,
                    expired, now, shutdownVars, sideVars, opVars >>

\* GET /api/vps/progress?id=
handleGetProgress(id) ==
    /\ phase # "exited"
    /\ mutex = "free"
    /\ resp' = Respond("progress", id, GetCode(id))
    /\ UNCHANGED << storeVars, mutex, reqClient, pc, pipeErr, hostVars, timers,
                    expired, now, shutdownVars, sideVars, opVars >>

(***************************************************************************)
(* StopVPS, StartVPS, RestartVPS and their HTTP handlers.                  *)
(***************************************************************************)
\* the QEMU process bound to the monitor socket of id: the one started last
\* with that socket path (0: none was started)
MonitorOf(id) ==
    IF \E pid \in DOMAIN procs : procs[pid].vm = id
    THEN CHOOSE pid \in DOMAIN procs :
             /\ procs[pid].vm = id
             /\ \A other \in DOMAIN procs : procs[other].vm = id => other <= pid
    ELSE 0

\* echo <command> | socat - UNIX-CONNECT:<monitor socket> can succeed only
\* while a QEMU process listens on the socket
MonitorReachable(id) == checkProcess(MonitorOf(id))

\* the checks of StopVPS that return an error before anything is sent
StopRejected(id) ==
    \/ id \notin instances
    \/ vps[id].Status = StatusStopped
    \/ vps[id].QEMUPid <= 0

\* POST /api/vps/stop?id=: StopVPS under the lock.  On success the status
\* is "stopping" and a watcher goroutine is started.
handleStopVPS(id) ==
    /\ phase # "exited"
    /\ mutex = "free"
    /\ Cardinality(watchers) < MaxWatchers
    /\ \E ok \in BOOLEAN :
         /\ ok => ~StopRejected(id) /\ MonitorReachable(id)
         /\ IF ok
            THEN /\ powerdown' = powerdown \cup { MonitorOf(id) }
                 /\ vps' = [vps EXCEPT ![id].Status = StatusStopping]
                 /\ watchers' = watchers \cup
                        { [vm |-> id, pid |-> vps[id].QEMUPid, at |-> "watching"] }
                 /\ resp' = Respond("stop", id, 200)
            ELSE /\ UNCHANGED << powerdown, vps, watchers >>
                 /\ resp' = Respond("stop", id, 500)
    /\ UNCHANGED << instances, ipInstances, nextVNCPort, nextSSHPort, mutex,
                    reqClient, pc, pipeErr, hostVars, timers, expired, now,
                    shutdownVars, sideVars, settles, starter >>

\* the watcher's ticker case: checkProcess(vps.QEMUPid) failed, the watcher
\* goes for the lock
WatcherTick(w) ==
    /\ phase # "exited"
    /\ w \in watchers
    /\ w.at = "watching"
    /\ ~checkProcess(vps[w.vm].QEMUPid)
    /\ watchers' = (watchers \ { w }) \cup { [w EXCEPT !.at = "setting"] }
    /\ UNCHANGED << storeVars, mutex, reqClient, pc, pipeErr, hostVars, timers,
                    expired, now, shutdownVars, sideVars, resp, settles, powerdown, starter >>

\* the watcher's timeout case: kill vps.QEMUPid, then go for the lock
WatcherTimeout(w) ==
    /\ phase # "exited"
    /\ w \in watchers
    /\ w.at = "watching"
    /\ procs' = Kill(procs, vps[w.vm].QEMUPid)
    /\ watchers' = (watchers \ { w }) \cup { [w EXCEPT !.at = "setting"] }
    /\ UNCHANGED << storeVars, mutex, reqClient, pc, pipeErr, baseFiles, dirs,
                    pidFile, bridges, timers, expired, now, shutdownVars, sideVars, resp,
                    settles, powerdown, starter >>

\* the watcher takes the lock, sets vps.Status = StatusStopped and ends
WatcherSet(w) ==
    /\ phase # "exited"
    /\ w \in watchers
    /\ w.at = "setting"
    /\ mutex = "free"
    /\ vps' = [vps EXCEPT ![w.vm].Status = StatusStopped]
    /\ watchers' = watchers \ { w }
    /\ UNCHANGED << instances, ipInstances, nextVNCPort, nextSSHPort, mutex,
                    reqClient, pc, pipeErr, hostVars, timers, expired, now,
                    shutdownVars, sideVars, resp, settles, powerdown, starter >>

\* the guest acts on system_powerdown: the QEMU process exits
PowerOff(pid) ==
    /\ pid \in powerdown
    /\ checkProcess(pid)
    /\ procs' = [procs EXCEPT ![pid].alive = FALSE]
    /\ UNCHANGED << storeVars, mutex, reqClient, pc, pipeErr, baseFiles, dirs,
                    pidFile, bridges, timers, expired, now, shutdownVars, sideVars, resp,
                    opVars >>

\* the check of StartVPS that returns an error before anything is spawned
StartRejected(id) ==
    \/ id \notin instances
    \/ vps[id].Status = StatusRunning

\* POST /api/vps/start?id=, first part of StartVPS: the checks, os.Create
\* of the log file, vps.Status = StatusStarting and cmd.Start().  The lock
\* stays held for the second part.
StartVPS_Spawn(id) ==
    /\ phase # "exited"
    /\ mutex = "free"
    /\ NewPid <= MaxProcs
    /\ \E outcome \in { "rejected", "up", "exits", "log_failed", "start_failed" } :
         /\ outcome = "rejected" <=> StartRejected(id)
         /\ outcome = "up" => id \in dirs
         /\ procs' = IF outcome = "up"
                     THEN procs @@ (NewPid :> [vm |-> id, alive |-> TRUE])
                     ELSE procs
         /\ pidFile' = IF outcome = "up"
                       THEN [pidFile EXCEPT ![id] = NewPid] ELSE pidFile
         /\ CASE outcome \in { "up", "exits" } ->
                   /\ vps' = [vps EXCEPT ![id].Status = StatusStarting]
                   /\ mutex' = "start"
                   /\ starter' = [id |-> id, from |-> vps[id].Status,
                                  cmd |-> IF outcome = "up" THEN NewPid ELSE 0]
                   /\ UNCHANGED resp
              [] outcome = "start_failed" ->
                   /\ vps' = [vps EXCEPT ![id].Status = StatusStopped]
                   /\ resp' = Respond("start", id, 500)
                   /\ UNCHANGED << mutex, starter >>
              [] outcome \in { "rejected", "log_failed" } ->
                   /\ resp' = Respond("start", id, 500)
                   /\ UNCHANGED << vps, mutex, starter >>
    /\ UNCHANGED << instances, ipInstances, nextVNCPort, nextSSHPort, reqClient,
                    pc, pipeErr, baseFiles, dirs, bridges, timers, expired, now,
                    shutdownVars, sideVars, watchers, settles, powerdown >>

\* second part of StartVPS: the pidfile poll (30 s), checkProcess with 3
\* tries, then vps.QEMUPid = pid and vps.Status = StatusRunning; the lock
\* is released on return
Started_renew(r, pid) ==
    [r EXCEPT !.QEMUPid = pid, !.Status = StatusRunning,
              !.ExpiresAt = @ + VPS_LIFETIME]

\* vps.QEMUPid = pid; vps.Status = StatusRunning
Started(r, pid) == [r EXCEPT !.QEMUPid = pid, !.Status = StatusRunning]

StartVPS_Verify(id) ==
    /\ phase # "exited"
    /\ mutex = "start"
    /\ starter.id = id
    /\ IF pidFile[id] = 0 \/ ~checkProcess(pidFile[id])
       THEN /\ vps' = [vps EXCEPT ![id].Status = StatusStopped]
            /\ resp' = Respond("start", id, 500)
       ELSE /\ vps' = [vps EXCEPT ![id] = Started(@, pidFile[id])]
            /\ resp' = Respond("start", id, 200)
    /\ mutex' = "free"
    /\ starter' = [id |-> 0, from |-> "", cmd |-> 0]
    /\ UNCHANGED << instances, ipInstances, nextVNCPort, nextSSHPort, reqClient,
                    pc, pipeErr, hostVars, timers, expired, now, shutdownVars, sideVars,
                    watchers, settles, powerdown >>

\* (variant of RestartRejected: the status check of StopVPS in its place)
RestartRejected_notStopped(id) ==
    \/ id \notin instances
    \/ vps[id].Status = StatusStopped
    \/ vps[id].QEMUPid <= 0

\* the checks of RestartVPS that return an error before anything is sent
RestartRejected(id) ==
    \/ id \notin instances
    \/ vps[id].Status # StatusRunning
    \/ vps[id].QEMUPid <= 0

\* POST /api/vps/restart?id=: RestartVPS under the lock.  On success the
\* status is "restarting" and the settle goroutine is started.
handleRestartVPS(id) ==
    /\ phase # "exited"
    /\ mutex = "free"
    /\ settles[id] < MaxSettles
    /\ \E ok \in BOOLEAN :
         /\ ok => ~RestartRejected(id) /\ MonitorReachable(id)
         /\ IF ok
            THEN /\ vps' = [vps EXCEPT ![id].Status = StatusRestarting]
                 /\ settles' = [settles EXCEPT ![id] = @ + 1]
                 /\ resp' = Respond("restart", id, 200)
            ELSE /\ UNCHANGED << vps, settles >>
                 /\ resp' = Respond("restart", id, 500)
    /\ UNCHANGED << instances, ipInstances, nextVNCPort, nextSSHPort, mutex,
                    reqClient, pc, pipeErr, hostVars, timers, expired, now,
                    shutdownVars, sideVars, watchers, powerdown, starter >>

\* the settle goroutine of RestartVPS: time.Sleep(30 s) returns, then
\* vps.Status = StatusRunning under the lock
Settle(id) ==
    /\ phase # "exited"
    /\ settles[id] > 0
    /\ mutex = "free"
    /\ vps' = [vps EXCEPT ![id].Status = StatusRunning]
    /\ settles' = [settles EXCEPT ![id] = @ - 1]
    /\ UNCHANGED << instances, ipInstances, nextVNCPort, nextSSHPort, mutex,
                    reqClient, pc, pipeErr, hostVars, timers, expired, now,
                    shutdownVars, sideVars, resp, watchers, powerdown, starter >>

(***************************************************************************)
(* Shutdown: the signal goroutine of main runs cleanup and exits.          *)
(***************************************************************************)
\* SIGINT/SIGTERM arrives; cleanup takes the lock and starts one goroutine
\* per stored record
CleanupBegin ==
    /\ phase = "serving"
    /\ mutex = "free"
    /\ phase' = "cleaning"
    /\ mutex' = "cleanup"
    /\ toClean' = instances
    /\ UNCHANGED << storeVars, reqClient, pc, pipeErr, hostVars, timers, expired,
                    now, resp, recording, opVars, sideVars >>

\* one cleanup goroutine: stop the bridge, kill vps.QEMUPid if positive,
\* remove the instance directory
CleanupVM(id) ==
    /\ phase = "cleaning"
    /\ id \in toClean
    /\ bridges' = stopWebsockifyProxy(bridges, vps[id].VNCPort)
    /\ procs' = IF vps[id].QEMUPid > 0 THEN Kill(procs, vps[id].QEMUPid) ELSE procs
    /\ dirs' = RemoveDir(dirs, id)
    /\ pidFile' = RemovePidFile(pidFile, id)
    /\ toClean' = toClean \ { id }
    /\ UNCHANGED << storeVars, mutex, reqClient, pc, pipeErr, baseFiles, timers,
                    expired, now, phase, resp, recording, opVars, sideVars >>

\* wg.Wait() returns, os.Exit(0): the lock is never released
CleanupExit ==
    /\ phase = "cleaning"
    /\ toClean = {}
    /\ phase' = "exited"
    /\ UNCHANGED << storeVars, mutex, reqClient, pc, pipeErr, hostVars, timers,
                    expired, now, toClean, resp, recording, opVars, sideVars >>

(***************************************************************************)
(* isValidHostname called on its own (SpecHostname).                       *)
(***************************************************************************)
\* the longest strings enumerated in full
MaxHostLen == 3

\* every string of at most MaxHostLen characters over a small alphabet, and
\* names around the limits of 63 and 253 characters
HostnameInputs ==
    LET Alphabet == { "a", "Z", "1", "-", ".", "_", "/", "\n" }
        Rep(n) == [i \in 1..n |-> "a"]
        Dot == << "." >>
    IN  UNION { [1..n -> Alphabet] : n \in 0..MaxHostLen }
        \cup { << "a", "-", "b", ".", "c", "1" >>,
               Rep(63), Rep(64), Rep(63) \o Dot \o Rep(64),
               Rep(63) \o Dot \o Rep(63) \o Dot \o Rep(63) \o Dot \o Rep(61),
               Rep(63) \o Dot \o Rep(63) \o Dot \o Rep(63) \o Dot \o Rep(62),
               Rep(63) \o Dot \o Rep(63) \o Dot \o Rep(63) \o Dot \o Rep(60) \o Dot,
               Rep(62) \o << "-" >>, << "-" >> \o Rep(62) }

isValidHostname_Call ==
    /\ ret = << >>
    /\ ret' = << isValidHostname(arg) >>
    /\ UNCHANGED << storeVars, mutex, reqClient, pc, pipeErr, hostVars, timers,
                    expired, now, shutdownVars, opVars, resp, tmpFiles,
                    metricVars, arg >>

(***************************************************************************)
(* AuthMiddleware.ServeHTTP in front of the /api routes.                   *)
(***************************************************************************)
\* os.Getenv("API_KEY"), which main requires to be non-empty
API_KEY == "secret"

\* requests under /api: the route, the id parameter, whether the method is
\* OPTIONS (otherwise it is the method the route's handler accepts) and the
\* X-API-Key header ("" when it is missing)
Requests ==
    [op : { "create", "delete", "get", "list" }, id : IDs, options : BOOLEAN,
     key : { "", API_KEY, "wrong" }]

Authorized_nonempty(apiKey) == apiKey # ""

\* the negation of apiKey == "" || apiKey != m.apiKey
Authorized(apiKey) == ~(apiKey = "" \/ apiKey # API_KEY)

ServeHTTP(r) ==
    IF r.options \/ ~Authorized(r.key)
    THEN /\ phase # "exited"
         /\ resp' = Respond(r.op, r.id, IF r.options THEN 200 ELSE 401)
         /\ UNCHANGED << storeVars, mutex, reqClient, pc, pipeErr, hostVars,
                         timers, expired, now, shutdownVars, opVars, sideVars >>
    ELSE CASE r.op = "create" ->
                 \E req \in CreateRequests : handleCreateVPS(ClientOrder[1], req)
           [] r.op = "delete" -> handleDeleteVPS(r.id)
           [] r.op = "get" -> handleGetVPS(r.id)
           [] r.op = "list" -> handleListVPS

(***************************************************************************)
(* Panics.  main defers recover -> cleanup -> panic(r); a deferred         *)
(* function runs only for a panic of its own goroutine, net/http recovers  *)
(* the panic of a handler, and an unrecovered panic of any other goroutine *)
(* ends the process at once.                                               *)
(***************************************************************************)
PanicThreads == { "main", "handler", "pipeline", "timer", "watcher", "collector" }

Panic(thread) ==
    /\ phase = "serving"
    /\ thread = "pipeline" => \E id \in DOMAIN pc : pc[id] \notin { "done", "failed" }
    /\ thread = "timer" => DOMAIN timers # {}
    /\ thread = "watcher" => watchers # {}
    /\ IF thread = "main"
       THEN /\ mutex = "free"
            /\ phase' = "cleaning"
            /\ mutex' = "cleanup"
            /\ toClean' = instances
            /\ UNCHANGED resp
       ELSE IF thread = "handler"
       THEN /\ resp' = Respond("panic", 0, 0)
            /\ UNCHANGED << phase, mutex, toClean >>
       ELSE /\ phase' = "exited"
            /\ UNCHANGED << mutex, toClean, resp >>
    /\ UNCHANGED << storeVars, reqClient, pc, pipeErr, hostVars, timers, expired,
                    now, recording, opVars, sideVars >>

(***************************************************************************)
(* Environment: a QEMU process ends by itself; time passes.                *)
(***************************************************************************)
QemuExit(pid) ==
    /\ pid \in DOMAIN procs
    /\ procs[pid].alive
    /\ procs' = [procs EXCEPT ![pid].alive = FALSE]
    /\ UNCHANGED << storeVars, mutex, reqClient, pc, pipeErr, baseFiles, dirs,
                    pidFile, bridges, timers, expired, now, shutdownVars, sideVars, opVars, resp >>

Tick ==
    /\ phase # "exited"
    /\ now + TickStep <= MaxNow
    /\ now' = now + TickStep
    /\ UNCHANGED << storeVars, mutex, reqClient, pc, pipeErr, hostVars, timers,
                    expired, shutdownVars, sideVars, opVars, resp >>

Next ==
    \/ \E c \in Clients, req \in CreateRequests : handleCreateVPS(c, req)
    \/ \E id \in IDs : Pipeline(id)
    \/ \E id \in IDs : handleDeleteVPS(id)
    \/ \E id \in IDs : scheduleCleanup(id)
    \/ handleListVPS
    \/ \E pid \in 1..MaxVMs : QemuExit(pid)
    \/ CleanupBegin
    \/ \E id \in IDs : CleanupVM(id)
    \/ CleanupExit

Spec == Init /\ [][Next]_vars

\* the clients that may send the next create request: those that have sent
\* one, and the first that has not (addresses are interchangeable)
NextClients ==
    LET seen == { reqClient[id] : id \in DOMAIN reqClient }
    IN  seen \cup { ClientOrder[i] :
                        i \in { Cardinality(seen) + 1 } \cap DOMAIN ClientOrder }

NextAPI ==
    \/ \E c \in NextClients, req \in CreateRequests : handleCreateVPS(c, req)
    \/ \E id \in IDs : Pipeline(id)
    \/ \E id \in IDs : handleDeleteVPS(id)
    \/ \E id \in IDs : scheduleCleanup(id)
    \/ \E id \in IDs : handleGetVPS(id)
    \/ \E id \in IDs : handleGetProgress(id)

SpecAPI == InitAPI /\ [][NextAPI]_vars

NextTime ==
    \/ \E c \in Clients, req \in CreateRequests : handleCreateVPS(c, req)
    \/ \E id \in IDs : Pipeline(id)
    \/ \E id \in IDs : handleDeleteVPS(id)
    \/ \E id \in IDs : scheduleCleanup(id)
    \/ Tick

SpecTime == Init /\ [][NextTime]_vars

\* the stop watchers that exist
WatcherStates ==
    [vm : IDs, pid : 1..MaxProcs, at : { "watching", "setting" }]

NextLife ==
    \/ \E req \in LifeRequests :
           NewID <= MaxLifeVMs /\ handleCreateVPS(ClientOrder[1], req)
    \/ \E id \in IDs : Pipeline(id)
    \/ \E id \in IDs : handleDeleteVPS(id)
    \/ handleListVPS
    \/ \E id \in IDs : handleStopVPS(id)
    \/ \E w \in WatcherStates : WatcherTick(w)
    \/ \E w \in WatcherStates : WatcherTimeout(w)
    \/ \E w \in WatcherStates : WatcherSet(w)
    \/ \E pid \in 1..MaxProcs : PowerOff(pid)
    \/ \E id \in IDs : StartVPS_Spawn(id)
    \/ \E id \in IDs : StartVPS_Verify(id)
    \/ \E id \in IDs : handleRestartVPS(id)
    \/ \E id \in IDs : Settle(id)

SpecLife == InitAPI /\ [][NextLife]_vars

\* scheduling of the lifecycle specification: a StartVPS that holds the lock
\* returns, and a settle goroutine whose sleep is over gets the lock
\* (sync.Mutex hands the lock to a goroutine that has waited for it)
FairLife ==
    \A id \in IDs : WF_vars(StartVPS_Verify(id)) /\ SF_vars(Settle(id))

SpecLifeFair == SpecLife /\ FairLife

(***************************************************************************)
(* The metrics collector (metricsCollector, collectMetrics,                *)
(* updateMetricsCache) and the reader handleGetMetrics.  A speed is kept   *)
(* as the exact quotient [num, den] of the float64 division in the code.   *)
(***************************************************************************)
\* time.NewTicker(2 * time.Second)
MetricsPeriod == 2

\* the length updateMetricsCache keeps the history at
MetricsWindow == 300

\* the zero time.Time of a MetricsCache that has stored nothing
ZeroTime == -1

ZeroSpeed == [num |-> 0, den |-> 1]

\* the zero values of DiskMetrics and NetworkMetrics
ZeroDisk ==
    [ReadBytes |-> 0, WriteBytes |-> 0, ReadSpeed |-> ZeroSpeed,
     WriteSpeed |-> ZeroSpeed]

ZeroNet ==
    [RXBytes |-> 0, TXBytes |-> 0, RXSpeed |-> ZeroSpeed, TXSpeed |-> ZeroSpeed]

\* read_bytes and write_bytes of /proc/<pid>/io one collection period after
\* the last look: the counters of a process start at 0 and never decrease
ProcIO(pid) ==
    LET was == IF pid \in DOMAIN io THEN io[pid]
               ELSE [ReadBytes |-> 0, WriteBytes |-> 0]
    IN  [ReadBytes |-> was.ReadBytes + 3, WriteBytes |-> was.WriteBytes + 1]

\* the eth0/ens3 line of /proc/<pid>/net/dev at time t: the interface
\* counters of the host's network namespace, which never decrease
NetDev(t) == [RXBytes |-> 5 * t, TXBytes |-> 2 * t]

Speed_total(c1, c0, duration) == [num |-> c1, den |-> duration]

\* float64(c1 - c0) / duration
Speed(c1, c0, duration) == [num |-> c1 - c0, den |-> duration]

\* metrics.Network with the speeds computed against the cache's baseline
NetSpeeds(cache, metrics) ==
    LET duration == metrics.Time - cache.LastUpdate
    IN  [metrics.Network EXCEPT
            !.RXSpeed = Speed(metrics.Network.RXBytes,
                              cache.LastNetStats.RXBytes, duration),
            !.TXSpeed = Speed(metrics.Network.TXBytes,
                              cache.LastNetStats.TXBytes, duration)]

DiskSpeeds(cache, metrics) ==
    LET duration == metrics.Time - cache.LastUpdate
    IN  [metrics.Disk EXCEPT
            !.ReadSpeed = Speed(metrics.Disk.ReadBytes,
                                cache.LastDiskStats.ReadBytes, duration),
            !.WriteSpeed = Speed(metrics.Disk.WriteBytes,
                                 cache.LastDiskStats.WriteBytes, duration)]

\* if !cache.LastUpdate.IsZero() { duration := ...; if duration > 0 {
HasBaseline(cache, metrics) ==
    /\ cache.LastUpdate # ZeroTime
    /\ metrics.Time - cache.LastUpdate > 0

\* one pass of the collector's loop for a VM whose Status reads running,
\* up to the return of collectMetrics; readable tells whether the reads of
\* /proc/<QEMUPid>/io and /proc/<QEMUPid>/net/dev succeed
Collect(id, readable) ==
    /\ phase # "exited"
    /\ sample = NoSample
    /\ id \in instances
    /\ vps[id].Status = StatusRunning
    /\ readable => checkProcess(vps[id].QEMUPid)
    /\ now' = now + MetricsPeriod
    /\ LET pid == vps[id].QEMUPid
           read == [Time |-> now',
                    Disk |-> IF readable
                             THEN [ZeroDisk EXCEPT
                                      !.ReadBytes = ProcIO(pid).ReadBytes,
                                      !.WriteBytes = ProcIO(pid).WriteBytes]
                             ELSE ZeroDisk,
                    Network |-> IF readable
                                THEN [ZeroNet EXCEPT
                                         !.RXBytes = NetDev(now').RXBytes,
                                         !.TXBytes = NetDev(now').TXBytes]
                                ELSE ZeroNet]
           metrics == IF /\ id \in DOMAIN metricsCache
                         /\ HasBaseline(metricsCache[id], read)
                      THEN [read EXCEPT
                               !.Network = NetSpeeds(metricsCache[id], read)]
                      ELSE read
       IN  /\ sample' = IF pid <= 0 THEN NoSample
                        ELSE [id |-> id, metrics |-> metrics]
           /\ io' = IF readable /\ pid > 0
                    THEN [p \in DOMAIN io \cup { pid } |->
                             IF p = pid
                             THEN [ReadBytes |-> ProcIO(pid).ReadBytes,
                                   WriteBytes |-> ProcIO(pid).WriteBytes]
                             ELSE io[p]]
                    ELSE io
    /\ UNCHANGED << storeVars, mutex, reqClient, pc, pipeErr, hostVars, timers,
                    expired, shutdownVars, opVars, resp, tmpFiles, metricsCache,
                    metricsMutex, reader, collector, arg, ret >>

\* a tick of the collector that finds no VM whose Status reads running
TickerIdle ==
    /\ phase # "exited"
    /\ sample = NoSample
    /\ \A id \in instances : vps[id].Status # StatusRunning
    /\ now' = now + MetricsPeriod
    /\ UNCHANGED << storeVars, mutex, reqClient, pc, pipeErr, hostVars, timers,
                    expired, shutdownVars, opVars, resp, sideVars >>

Window_keep(history) == history

\* if len(cache.MetricsHistory) > 300 { ... = cache.MetricsHistory[1:] }
Window(history) ==
    IF Len(history) > MetricsWindow THEN Tail(history) ELSE history

\* the MetricsCache after updateMetricsCache(id, metrics)
Updated(caches, id, metrics) ==
    LET cache == IF id \in DOMAIN caches THEN caches[id]
                 ELSE [LastUpdate |-> ZeroTime, LastDiskStats |-> ZeroDisk,
                       LastNetStats |-> ZeroNet, MetricsHistory |-> << >>]
        stored == IF HasBaseline(cache, metrics)
                  THEN [metrics EXCEPT !.Disk = DiskSpeeds(cache, metrics),
                                       !.Network = NetSpeeds(cache, metrics)]
                  ELSE metrics
    IN  [LastUpdate |-> stored.Time,
         LastDiskStats |-> stored.Disk,
         LastNetStats |-> stored.Network,
         MetricsHistory |-> Window(Append(cache.MetricsHistory, stored))]

\* updateMetricsCache: m.metricsMutex.Lock()
updateMetricsCache_Lock ==
    /\ phase # "exited"
    /\ sample # NoSample
    /\ metricsMutex = "free"
    /\ metricsMutex' = "collector"
    /\ UNCHANGED << storeVars, mutex, reqClient, pc, pipeErr, hostVars, timers,
                    expired, now, shutdownVars, opVars, resp, tmpFiles,
                    metricsCache, sample, reader, io, collector, arg, ret >>

\* updateMetricsCache: the body and the deferred Unlock
updateMetricsCache ==
    /\ phase # "exited"
    /\ metricsMutex = "collector"
    /\ collector = "idle"
    /\ sample # NoSample
    /\ metricsCache' =
           [i \in DOMAIN metricsCache \cup { sample.id } |->
               IF i = sample.id
               THEN Updated(metricsCache, sample.id, sample.metrics)
               ELSE metricsCache[i]]
    /\ sample' = NoSample
    /\ metricsMutex' = "free"
    /\ UNCHANGED << storeVars, mutex, reqClient, pc, pipeErr, hostVars, timers,
                    expired, now, shutdownVars, opVars, resp, tmpFiles, reader,
                    io, collector, arg, ret >>

\* handleGetMetrics up to the RUnlock: the lookup of the cache under the
\* read lock, and the 404 when there is none
handleGetMetrics_Lookup(id) ==
    /\ phase # "exited"
    /\ reader = 0
    /\ metricsMutex = "free"
    /\ IF id \in DOMAIN metricsCache
       THEN reader' = id /\ UNCHANGED resp
       ELSE resp' = Respond("metrics", id, 404) /\ UNCHANGED reader
    /\ UNCHANGED << storeVars, mutex, reqClient, pc, pipeErr, hostVars, timers,
                    expired, now, shutdownVars, opVars, tmpFiles, metricsCache,
                    metricsMutex, sample, io, collector, arg, ret >>

\* handleGetMetrics: json.NewEncoder(w).Encode(cache.MetricsHistory), which
\* reads the slice with no lock held
handleGetMetrics_Encode ==
    /\ phase # "exited"
    /\ reader # 0
    /\ resp' = Respond("metrics", reader, 200)
    /\ reader' = 0
    /\ UNCHANGED << storeVars, mutex, reqClient, pc, pipeErr, hostVars, timers,
                    expired, now, shutdownVars, opVars, tmpFiles, metricsCache,
                    metricsMutex, sample, io, collector, arg, ret >>

(***************************************************************************)
(* The locks of one pass of collectMetrics, step by step: the read lock    *)
(* of the record store for the lookup, its release, then the lock of the   *)
(* metrics cache around the speed computation (Collect is taken between    *)
(* the last two).                                                          *)
(***************************************************************************)
\* m.mutex.RLock() of collectMetrics: a reader gets in when no writer holds
\* the lock
collectMetrics_RLock ==
    /\ phase # "exited"
    /\ collector = "idle"
    /\ sample = NoSample
    /\ mutex = "free"
    /\ mutex' = "collector"
    /\ collector' = "rlocked"
    /\ UNCHANGED << storeVars, reqClient, pc, pipeErr, hostVars, timers,
                    expired, now, shutdownVars, opVars, resp, tmpFiles,
                    metricsCache, metricsMutex, sample, reader, io, arg, ret >>

\* (variant of collectMetrics_RUnlock: the read lock kept over the rest of
\* the pass)
collectMetrics_RUnlock_kept ==
    /\ phase # "exited"
    /\ collector = "rlocked"
    /\ collector' = "unlocked"
    /\ UNCHANGED << storeVars, mutex, reqClient, pc, pipeErr, hostVars, timers,
                    expired, now, shutdownVars, opVars, resp, tmpFiles,
                    metricsCache, metricsMutex, sample, reader, io, arg, ret >>

\* vps, exists := m.instances[id]; m.mutex.RUnlock()
collectMetrics_RUnlock ==
    /\ phase # "exited"
    /\ collector = "rlocked"
    /\ mutex' = "free"
    /\ collector' = "unlocked"
    /\ UNCHANGED << storeVars, reqClient, pc, pipeErr, hostVars, timers,
                    expired, now, shutdownVars, opVars, resp, tmpFiles,
                    metricsCache, metricsMutex, sample, reader, io, arg, ret >>

\* m.metricsMutex.Lock() before the speeds are computed
collectMetrics_Lock ==
    /\ phase # "exited"
    /\ collector = "unlocked"
    /\ metricsMutex = "free"
    /\ metricsMutex' = "collector"
    /\ collector' = "mlocked"
    /\ UNCHANGED << storeVars, mutex, reqClient, pc, pipeErr, hostVars, timers,
                    expired, now, shutdownVars, opVars, resp, tmpFiles,
                    metricsCache, sample, reader, io, arg, ret >>

\* (variant of collectMetrics_Unlock: a return that leaves the lock of the
\* metrics cache locked)
collectMetrics_Unlock_missing ==
    /\ phase # "exited"
    /\ collector = "mlocked"
    /\ collector' = "idle"
    /\ UNCHANGED << storeVars, mutex, reqClient, pc, pipeErr, hostVars, timers,
                    expired, now, shutdownVars, opVars, resp, tmpFiles,
                    metricsCache, metricsMutex, sample, reader, io, arg, ret >>

\* m.metricsMutex.Unlock() and the return of collectMetrics
collectMetrics_Unlock ==
    /\ phase # "exited"
    /\ collector = "mlocked"
    /\ metricsMutex' = "free"
    /\ collector' = "idle"
    /\ UNCHANGED << storeVars, mutex, reqClient, pc, pipeErr, hostVars, timers,
                    expired, now, shutdownVars, opVars, resp, tmpFiles,
                    metricsCache, sample, reader, io, arg, ret >>

\* the creation pipeline with the image preparation step by step: P_Prepare
\* (the preparation in one step) is taken only when the base file exists
SpecImage ==
    Init /\ [][
        \/ \E req \in CreateRequests : handleCreateVPS(ClientOrder[1], req)
        \/ \E id \in IDs : P_Init10(id) \/ P_Init20(id)
        \/ \E id \in IDs : Prep_Begin(id)
        \/ \E id \in IDs : Prep_Download(id)
        \/ \E id \in IDs : Prep_Convert(id)
        \/ \E id \in IDs : Prep_Resize(id)
        \/ \E id \in IDs :
               /\ At(id, "prepare")
               /\ baseFiles[vps[id].ImageType] # "none"
               /\ P_Prepare(id)
        \/ \E id \in IDs : P_Disk40(id) \/ P_MkDisk(id) \/ P_CI60(id) \/ P_MkISO(id)
        \/ \E id \in IDs : P_Q80(id) \/ P_Spawn(id) \/ P_WaitPid(id) \/ P_Vnc90(id)
        \/ \E id \in IDs : P_Bridge(id) \/ P_Done100(id) \/ P_Running(id) \/ P_Fail(id)
    ]_vars

\* one VM and the metrics collector, every read of /proc succeeding, for
\* more than MetricsWindow ticks
SpecHistory ==
    Init /\ [][
        \/ \E req \in CreateRequests :
               NewID <= MaxLifeVMs /\ handleCreateVPS(ClientOrder[1], req)
        \/ \E id \in IDs : Pipeline(id)
        \/ \E id \in IDs : now + MetricsPeriod <= MaxHistoryNow /\ Collect(id, TRUE)
        \/ updateMetricsCache_Lock
        \/ updateMetricsCache
    ]_vars

\* one VM with stop (the guest ignoring the powerdown) and start, QEMU
\* exiting on its own, the collector and readers of the metrics, for a few
\* ticks
\* one VM with stop, a panic in any thread, and the cleanup that main runs
SpecPanic ==
    InitAPI /\ [][
        \/ \E req \in CreateRequests :
               NewID <= MaxLifeVMs /\ handleCreateVPS(ClientOrder[1], req)
        \/ \E id \in IDs : Pipeline(id)
        \/ \E id \in IDs : handleDeleteVPS(id)
        \/ \E id \in IDs : handleStopVPS(id)
        \/ \E w \in WatcherStates : WatcherTimeout(w)
        \/ \E w \in WatcherStates : WatcherSet(w)
        \/ \E thread \in PanicThreads : Panic(thread)
        \/ \E id \in IDs : CleanupVM(id)
        \/ CleanupExit
    ]_vars

\* every request passing through the middleware, the creations that reach
\* the handler being MaxLifeVMs
SpecAuth ==
    InitAPI /\ [][
        \/ \E r \in Requests :
               /\ (r.op = "create" /\ ~r.options /\ r.key = API_KEY)
                      => NewID <= MaxLifeVMs
               /\ ServeHTTP(r)
        \/ \E id \in IDs : Pipeline(id)
    ]_vars

\* isValidHostname applied once to each input
InitHostname == InitWith(FALSE) /\ arg \in HostnameInputs /\ ret = << >>

SpecHostname == InitHostname /\ [][isValidHostname_Call]_vars

\* SpecLife without delete, the clock moving while some creations run
SpecExpiry ==
    InitAPI /\ [][
        \/ \E req \in LifeRequests :
               NewID <= MaxLifeVMs /\ handleCreateVPS(ClientOrder[1], req)
        \/ \E req \in LifeRequests :
               NewID <= MaxLifeVMs /\ handleCreateVPS_Late(ClientOrder[1], req)
        \/ \E id \in IDs : Pipeline(id)
        \/ handleListVPS
        \/ \E id \in IDs : handleStopVPS(id)
        \/ \E w \in WatcherStates : WatcherTick(w)
        \/ \E w \in WatcherStates : WatcherTimeout(w)
        \/ \E w \in WatcherStates : WatcherSet(w)
        \/ \E pid \in 1..MaxProcs : PowerOff(pid)
        \/ \E id \in IDs : StartVPS_Spawn(id)
        \/ \E id \in IDs : StartVPS_Verify(id)
        \/ \E id \in IDs : handleRestartVPS(id)
        \/ \E id \in IDs : Settle(id)
    ]_vars

\* one creation with delete and list going on, the creation goroutine
\* being scheduled as long as it has a step to take
SpecBridge ==
    Init /\ [][
        \/ \E req \in CreateRequests :
               NewID <= MaxLifeVMs /\ handleCreateVPS(ClientOrder[1], req)
        \/ \E id \in IDs : Pipeline(id)
        \/ \E id \in IDs : handleDeleteVPS(id)
        \/ handleListVPS
        \/ \E pid \in 1..MaxProcs : QemuExit(pid)
    ]_vars /\ \A id \in IDs : WF_vars(Pipeline(id))

SpecMetrics ==
    Init /\ [][
        \/ \E req \in CreateRequests :
               NewID <= MaxLifeVMs /\ handleCreateVPS(ClientOrder[1], req)
        \/ \E id \in IDs : Pipeline(id)
        \/ \E id \in IDs : handleStopVPS(id)
        \/ \E w \in WatcherStates : WatcherTimeout(w)
        \/ \E w \in WatcherStates : WatcherSet(w)
        \/ \E id \in IDs : StartVPS_Spawn(id)
        \/ \E id \in IDs : StartVPS_Verify(id)
        \/ \E pid \in 1..MaxProcs : QemuExit(pid)
        \/ now + MetricsPeriod <= MaxMetricsNow /\ TickerIdle
        \/ \E id \in IDs : \E readable \in BOOLEAN :
               now + MetricsPeriod <= MaxMetricsNow /\ Collect(id, readable)
        \/ updateMetricsCache_Lock
        \/ updateMetricsCache
        \/ \E id \in IDs : handleGetMetrics_Lookup(id)
        \/ handleGetMetrics_Encode
    ]_vars

\* one VM with its creation, start, deletion and expiry, the collector with
\* the locks of its pass step by step, a reader of the metrics, and the
\* shutdown
SpecLocks ==
    Init /\ [][
        \/ \E req \in CreateRequests :
               NewID <= MaxLifeVMs /\ handleCreateVPS(ClientOrder[1], req)
        \/ \E id \in IDs : Pipeline(id)
        \/ \E id \in IDs : handleDeleteVPS(id)
        \/ \E id \in IDs : scheduleCleanup(id)
        \/ \E id \in IDs : StartVPS_Spawn(id)
        \/ \E id \in IDs : StartVPS_Verify(id)
        \/ collectMetrics_RLock
        \/ collectMetrics_RUnlock
        \/ collectMetrics_Lock
        \/ \E id \in IDs :
               /\ collector = "mlocked"
               /\ now + MetricsPeriod <= MaxMetricsNow
               /\ Collect(id, TRUE)
        \/ collectMetrics_Unlock
        \/ updateMetricsCache_Lock
        \/ updateMetricsCache
        \/ \E id \in IDs : handleGetMetrics_Lookup(id)
        \/ handleGetMetrics_Encode
        \/ CleanupBegin
        \/ \E id \in IDs : CleanupVM(id)
        \/ CleanupExit
    ]_vars

\* scheduling of the locks: a thread that holds a lock goes on to release it
\* (what it does under the lock terminates), and a thread blocked in Lock or
\* RLock gets the lock if it is free again and again (sync.Mutex hands the
\* lock to a goroutine that has waited for it, and a pending Lock of a
\* sync.RWMutex keeps new readers out)
FairLocks ==
    /\ SF_vars(\E id \in IDs : Pipeline(id))
    /\ SF_vars(\E id \in IDs : Settle(id))
    /\ SF_vars(\E w \in WatcherStates : WatcherSet(w))
    /\ SF_vars(\/ collectMetrics_RLock \/ collectMetrics_RUnlock
               \/ collectMetrics_Lock \/ collectMetrics_Unlock
               \/ updateMetricsCache_Lock \/ updateMetricsCache)
    /\ WF_vars(CleanupExit \/ \E id \in IDs : CleanupVM(id))

\* the threads that take the locks: request handlers, one creation
\* goroutine, a stop watcher, a settle goroutine, the expiry timer, the
\* collector and the shutdown
SpecLocksFair ==
    /\ Init
    /\ [][
        \/ \E req \in LifeRequests :
               NewID <= MaxLifeVMs /\ handleCreateVPS(ClientOrder[1], req)
        \/ \E id \in IDs : Pipeline(id)
        \/ \E id \in IDs : handleDeleteVPS(id)
        \/ handleListVPS
        \/ \E id \in IDs : handleStopVPS(id)
        \/ \E w \in WatcherStates : WatcherTimeout(w)
        \/ \E w \in WatcherStates : WatcherSet(w)
        \/ \E id \in IDs : handleRestartVPS(id)
        \/ \E id \in IDs : Settle(id)
        \/ \E id \in IDs : scheduleCleanup(id)
        \/ collectMetrics_RLock
        \/ collectMetrics_RUnlock
        \/ collectMetrics_Lock
        \/ \E id \in IDs :
               /\ collector = "mlocked"
               /\ now + MetricsPeriod <= MaxMetricsNow
               /\ Collect(id, TRUE)
        \/ collectMetrics_Unlock
        \/ updateMetricsCache_Lock
        \/ updateMetricsCache
        \/ CleanupBegin
        \/ \E id \in IDs : CleanupVM(id)
        \/ CleanupExit
       ]_vars
    /\ FairLocks

(***************************************************************************)
(* Properties.                                                             *)
(***************************************************************************)
\* ids whose record was stored and has been removed (by DeleteVPS, called
\* by the delete handler or by the expiry timer)
Removed == Created \ instances

\* a QEMU process started for id is alive
QemuAlive(id) == \E pid \in DOMAIN procs : procs[pid].vm = id /\ procs[pid].alive

\* C1: in every reachable state any two distinct stored records have
\* different vnc_port values and different ssh_port values.
C1_PortsUnique ==
    \A a \in instances : \A b \in instances :
        a # b => /\ vps[a].VNCPort # vps[b].VNCPort
                 /\ vps[a].SSHPort # vps[b].SSHPort

\* two records are stored at the same time
C1_Witness == Cardinality(instances) >= 2

\* C2: the ports come from two strictly increasing counters seeded at 5900
\* and 2200: of any two CreateVPS calls the later record has the greater
\* vnc_port and the greater ssh_port, whatever was removed or failed in
\* between (ids are creation ordinals, and vps keeps removed records).
C2_PortsMonotone ==
    /\ \A a \in Created : \A b \in Created :
           a < b => /\ vps[a].VNCPort < vps[b].VNCPort
                    /\ vps[a].SSHPort < vps[b].SSHPort
    /\ 1 \in Created => vps[1].VNCPort = 5900 /\ vps[1].SSHPort = 2200

\* a record was created after the expiry timer had removed an earlier one
\* (in Spec the clock moves only when a timer fires)
C2_Witness ==
    \E a \in DOMAIN expired : \E b \in Created :
        a < b /\ vps[b].CreatedAt >= expired[a]

\* the client c made the request of a stored record that has not expired
OwnsLiveVPS(c) ==
    \E id \in instances : reqClient[id] = c /\ ~(now > vps[id].ExpiresAt)

\* C3: a create request from a client address that already owns a
\* non-expired VM is answered 409 and leaves the store, the port counters
\* and the client-address index unchanged.
C3_DuplicateClientRejected ==
    [][\A c \in Clients :
          (OwnsLiveVPS(c) /\ \E req \in CreateRequests : handleCreateVPS(c, req))
              => (resp'.code = 409 /\ UNCHANGED storeVars)]_vars

\* C4: a record removed by its expiry timer is removed no later than
\* created_at + LIFETIME + 5 s.
C4_LifetimeBound ==
    \A id \in DOMAIN expired :
        expired[id] - vps[id].CreatedAt <= VPS_LIFETIME + 5

\* C5: every record CreateVPS stored is eventually removed without a manual
\* delete, whether its creation ended in success or in failure.  Stated on
\* the final position of the creation goroutine: once it has ended, a
\* record that is still stored has its scheduleCleanup goroutine pending
\* (nothing else removes a record).
C5_EndedCreationIsReaped ==
    \A id \in instances :
        pc[id] \in { "done", "failed" } => id \in DOMAIN timers

\* C6: after DeleteVPS has removed the record of X, X's instance directory
\* does not exist, no QEMU process started for X is alive and no bridge
\* listens on X.vnc_port + 1000, also when the creation pipeline of X was
\* still in flight at the delete.
C6_CleanAfterDelete ==
    \A id \in Removed :
        /\ id \notin dirs
        /\ ~QemuAlive(id)
        /\ WsPort(vps[id].VNCPort) \notin bridges

\* C7: when the process exits after SIGINT/SIGTERM, the instance directory
\* of every stored VM has been removed and no QEMU process of it is alive.
C7_ShutdownSound ==
    phase = "exited" => \A id \in instances : id \notin dirs /\ ~QemuAlive(id)

\* what one request on id does to an id that was deleted before: delete /
\* get / progress are answered notFound (delete with code deleteCode), and
\* nothing of the store changes; the first delete answers 200 and removes
\* the record; a removed id never comes back.
DeleteIdempotent(deleteCode) ==
    \A id \in IDs :
        /\ (id \in instances /\ handleDeleteVPS(id))
              => (resp'.code = 200 /\ id \notin instances')
        /\ (id \in Removed /\ handleDeleteVPS(id))
              => (resp'.code = deleteCode /\ UNCHANGED storeVars)
        /\ (id \in Removed /\ handleGetVPS(id)) => resp'.code = 404
        /\ (id \in Removed /\ handleGetProgress(id)) => resp'.code = 404
        /\ id \in Removed => id \notin instances'

\* C8 (as claimed): the second delete of an id is answered 404.
C8_DeleteIdempotent404 == [][DeleteIdempotent(404)]_vars

\* C8 (amended): the first delete of a stored id answers 200 and removes the
\* record; a second delete of the same id is answered 500 ("VPS not found")
\* and changes nothing in the store, the client-address index or the port
\* counters; get and progress for that id answer 404; the id never
\* reappears in the store.
C8_DeleteIdempotent ==
    [][DeleteIdempotent(500)]_vars

\* a delete of an id that an earlier delete request had removed was answered
C8_Witness ==
    /\ resp.op = "delete"
    /\ resp.code = 500
    /\ resp.id \in Removed
    /\ resp.id \notin DOMAIN expired

\* C9: no step lowers the progress of a VM.
C9_ProgressMonotone ==
    [][\A id \in Created : vps'[id].Progress >= vps[id].Progress]_vars

\* a creation failed after it had published progress
C9_Witness ==
    \E id \in Created : vps[id].Status = "failed" /\ vps[id].Progress >= 40

\* the (stage, progress) pairs of a creation, in order
ProgressSequence ==
    << << StageInitializing, 10 >>, << StageInitializing, 20 >>,
       << StageCreatingDisk, 40 >>, << StagePreparingCloudInit, 60 >>,
       << StageStartingQEMU, 80 >>, << StageConfigVNC, 90 >>,
       << StageCompleted, 100 >> >>

StageProgress(r) == << r.Stage, r.Progress >>

\* C10: CreateVPS stores the record in status creating; while no stage has
\* failed the (stage, progress) pair moves through ProgressSequence in
\* order, the status is creating while progress is below 100, and running
\* only with progress 100.
C10_CreationSequence ==
    [][\A id \in instances' :
          LET r == vps'[id]
          IN  /\ id \notin Created => r.Status = "creating"
              /\ (id \in Created /\ StageProgress(r) # StageProgress(vps[id])
                                 /\ r.Stage # StageFailed)
                    => \E i \in 1..Len(ProgressSequence) :
                          /\ StageProgress(r) = ProgressSequence[i]
                          /\ i > 1 => StageProgress(vps[id]) = ProgressSequence[i - 1]
              /\ (r.Stage # StageFailed /\ r.Progress < 100) => r.Status = "creating"
              /\ r.Status = "running" => r.Progress = 100]_vars

\* C11: whenever a stage of the creation pipeline has failed, the record,
\* as long as it is stored, shows status failed, stage failed and a
\* non-empty error message (the values the progress endpoint returns).
C11_FailureCaptured ==
    \A id \in instances :
        pc[id] = "failed" =>
            /\ vps[id].Status = "failed"
            /\ vps[id].Stage = StageFailed
            /\ vps[id].ErrorMsg # ""

\* the transitions of the lifecycle state machine
LifecycleTransitions ==
    { << "creating", StatusRunning >>, << "creating", "failed" >>,
      << StatusRunning, StatusStopping >>, << StatusStopping, StatusStopped >>,
      << StatusRunning, StatusRestarting >>, << StatusRestarting, StatusRunning >>,
      << StatusStopped, StatusStarting >>, << StatusStarting, StatusRunning >> }

\* C12: every change of the status of a stored record is one of the
\* transitions of the lifecycle state machine.
C12_LifecycleTransitions ==
    [][\A id \in instances \cap instances' :
          vps'[id].Status # vps[id].Status
              => << vps[id].Status, vps'[id].Status >> \in LifecycleTransitions]_vars

\* C13: a stored record with status running has qemu_pid > 0, and that pid
\* is a live QEMU process of this VM.
C13_RunningHasLiveQemu ==
    \A id \in instances :
        vps[id].Status = StatusRunning =>
            /\ vps[id].QEMUPid > 0
            /\ checkProcess(vps[id].QEMUPid)
            /\ procs[vps[id].QEMUPid].vm = id

\* C14: StartVPS on a stored VM whose status is not stopped returns an
\* error, spawns no QEMU process and leaves the record unchanged.
C14_StartOnlyWhenStopped ==
    [][\A id \in instances :
          (vps[id].Status # StatusStopped /\ StartVPS_Spawn(id))
              => (resp'.code = 500 /\ UNCHANGED << vps, procs >>)]_vars

\* what a step does to the record of id as far as RestartVPS is concerned
RestartSteps(id) ==
    /\ (handleRestartVPS(id) /\ vps[id].Status # StatusRunning)
          => (resp'.code = 500 /\ UNCHANGED << vps, settles >>)
    /\ (handleRestartVPS(id) /\ resp'.code = 200)
          => /\ vps[id].Status = StatusRunning
             /\ vps'[id].Status = StatusRestarting
             /\ settles'[id] = settles[id] + 1
    /\ (handleRestartVPS(id) /\ resp'.code = 500)
          => UNCHANGED << vps, settles >>
    /\ vps'[id].Status = StatusRestarting => settles'[id] > 0
    /\ Settle(id) => vps'[id].Status = StatusRunning

\* C15: RestartVPS on a VM whose status is not running returns an error
\* and leaves the record unchanged; when honored it sets status restarting
\* and starts the settle goroutine; when the reset command cannot be sent
\* the error is returned and the record (status running) is unchanged; a
\* record in status restarting has a settle goroutine pending, and once
\* a settle goroutine is pending the status eventually is running.
C15_RestartOnlyWhenRunning ==
    /\ [][\A id \in Created : RestartSteps(id)]_vars
    /\ \A id \in IDs :
          (settles[id] > 0) ~> (id \in Created /\ vps[id].Status = StatusRunning)

\* a restart of a VM whose creation had completed was honored, and its
\* settle step has brought the status back to running
C15_Witness ==
    /\ resp.op = "restart"
    /\ resp.code = 200
    /\ pc[resp.id] = "done"
    /\ Cardinality(DOMAIN procs) = 1
    /\ settles[resp.id] = 0
    /\ vps[resp.id].Status = StatusRunning

\* C16: StopVPS that succeeds on a running VM leaves status stopping and a
\* watcher that will set stopped; when the watcher sets stopped, the QEMU
\* process it was started for is not alive; when the powerdown command
\* cannot be sent the error is returned and the record is unchanged.
C16_StopReachesStopped ==
    [][/\ \A id \in Created :
             /\ (handleStopVPS(id) /\ resp'.code = 200)
                   => /\ vps'[id].Status = StatusStopping
                      /\ \E w \in watchers' : w.vm = id
             /\ (handleStopVPS(id) /\ resp'.code = 500) => UNCHANGED vps
       /\ \A w \in watchers :
             WatcherSet(w) => /\ vps'[w.vm].Status = StatusStopped
                              /\ ~checkProcess(w.pid)]_vars

\* the creation goroutine of id has not ended and the status is creating
Creating(id) ==
    /\ id \in instances
    /\ pc[id] \notin { "done", "failed" }
    /\ vps[id].Status = "creating"

\* C17: while the creation pipeline of a VM is running (status creating),
\* no start spawns a process, no stop or restart sends a monitor command
\* and no delete removes the record.
C17_CreateBeforeOtherOps ==
    [][\A id \in IDs :
          Creating(id) =>
              /\ StartVPS_Spawn(id) => UNCHANGED << vps, procs >>
              /\ handleStopVPS(id) => UNCHANGED << vps, powerdown >>
              /\ handleRestartVPS(id) => UNCHANGED vps
              /\ handleDeleteVPS(id) => UNCHANGED << instances, hostVars >>]_vars

\* the request fails the validation of the hostname or of the image id
InvalidRequest(req) ==
    \/ ~isValidHostname(WithDefaults(req).hostname)
    \/ WithDefaults(req).image_type \notin SUPPORTED_IMAGES

\* C18: a create request with an invalid hostname or an unsupported image
\* id is answered 400, no record is added to the store and neither port
\* counter advances.
C18_InvalidCreateRejected ==
    [][\A c \in Clients : \A req \in CreateRequests :
          (InvalidRequest(req) /\ handleCreateVPS(c, req))
              => /\ resp'.code = 400
                 /\ UNCHANGED << instances, nextVNCPort, nextSSHPort >>]_vars

\* C19: a create request whose template is not in the template table, or
\* does not list the requested image as compatible, never yields a VM
\* whose creation completes and whose status is running.
C19_BadTemplateNeverRuns ==
    \A id \in Created :
        ~validateTemplateAndOS(vps[id].Template, vps[id].ImageType)
            => ~(pc[id] = "done" /\ vps[id].Status = StatusRunning)

\* C20: the base image file of a supported image is missing only when its
\* preparation (at start-up or in an earlier creation) has failed; a
\* creation that requests such an image ends its preparation step with the
\* error "image not available" and never goes on to the creating_disk stage.
C20_FailsFastAfterFailedPreparation ==
    [][\A id \in Created :
          (/\ pc[id] = "prepare"
           /\ baseFiles[vps[id].ImageType] = "none"
           /\ P_Prepare(id))
              => /\ pc'[id] = "fail"
                 /\ pipeErr'[id] = "image not available"]_vars

\* C21: at most one preparation of a given image runs at a time.
C21_OnePreparationPerImage ==
    \A a \in Created : \A b \in Created :
        (a # b /\ pc[a] \in PrepSteps /\ pc[b] \in PrepSteps)
            => vps[a].ImageType # vps[b].ImageType

\* C22: a creation builds its overlay (qemu-img create -b base succeeds)
\* only on a base file that is completely converted and resized.
C22_OverlayOnPreparedBase ==
    [][\A id \in Created :
          (pc[id] = "mkdisk" /\ P_MkDisk(id) /\ pc'[id] = "ci60")
              => baseFiles[vps[id].ImageType] = "ready"]_vars

\* the metrics history stored for id
History(id) == metricsCache[id].MetricsHistory

\* C23: every metrics history holds at most 300 samples in collection-time
\* order, newest last; an append to a full history drops the oldest sample.
C23_HistoryBounded ==
    /\ [](\A id \in DOMAIN metricsCache :
            /\ Len(History(id)) <= MetricsWindow
            /\ \A i \in 1..(Len(History(id)) - 1) :
                   History(id)[i].Time <= History(id)[i + 1].Time)
    /\ [][\A id \in DOMAIN metricsCache :
            LET h == History(id)
                h2 == metricsCache'[id].MetricsHistory
            IN  (h2 # h /\ Len(h) = MetricsWindow)
                    => /\ Len(h2) = MetricsWindow
                       /\ \A i \in 1..(MetricsWindow - 1) : h2[i] = h[i + 1]
                       /\ h2[MetricsWindow].Time = sample.metrics.Time]_vars

\* a full history whose oldest sample is not the first one collected (the
\* first sample of a VM carries no speed)
C23_Witness ==
    \E id \in DOMAIN metricsCache :
        /\ Len(History(id)) = MetricsWindow
        /\ History(id)[1].Network.RXSpeed.num > 0

\* C24: the reader accesses the history slice only while the collector is
\* not inside updateMetricsCache.
C24_ReadExcludesAppend ==
    [][handleGetMetrics_Encode => metricsMutex = "free"]_vars

\* C25: in every stored history rx_bytes and tx_bytes never decrease from
\* one sample to the next and every speed is >= 0.
C25_CountersAndRatesMonotone ==
    \A id \in DOMAIN metricsCache :
        /\ \A i \in 1..Len(History(id)) :
               /\ History(id)[i].Network.RXSpeed.num >= 0
               /\ History(id)[i].Network.TXSpeed.num >= 0
               /\ History(id)[i].Disk.ReadSpeed.num >= 0
               /\ History(id)[i].Disk.WriteSpeed.num >= 0
        /\ \A i \in 1..(Len(History(id)) - 1) :
               /\ History(id)[i].Network.RXBytes <= History(id)[i + 1].Network.RXBytes
               /\ History(id)[i].Network.TXBytes <= History(id)[i + 1].Network.TXBytes

\* speed is the quotient (c1 - c0) / (t1 - t0), or 0 when t1 - t0 <= 0
IsRate(speed, c1, c0, t1, t0) ==
    IF t1 - t0 > 0
    THEN speed.den > 0 /\ speed.num * (t1 - t0) = (c1 - c0) * speed.den
    ELSE speed = ZeroSpeed

\* C26: each stored speed is (c1 - c0) / (t1 - t0) against the preceding
\* stored sample of the VM, 0 for a first sample or a non-positive interval;
\* after the append the baseline is the new sample.
C26_RateFromPrecedingSample ==
    \A id \in DOMAIN metricsCache :
        LET h == History(id)
            n == Len(h)
        IN  /\ n > 0
            /\ n < MetricsWindow
                  => /\ h[1].Network.RXSpeed = ZeroSpeed
                     /\ h[1].Network.TXSpeed = ZeroSpeed
                     /\ h[1].Disk.ReadSpeed = ZeroSpeed
                     /\ h[1].Disk.WriteSpeed = ZeroSpeed
            /\ \A i \in 1..(n - 1) :
                   LET a == h[i]
                       b == h[i + 1]
                   IN  /\ IsRate(b.Network.RXSpeed, b.Network.RXBytes,
                                 a.Network.RXBytes, b.Time, a.Time)
                       /\ IsRate(b.Network.TXSpeed, b.Network.TXBytes,
                                 a.Network.TXBytes, b.Time, a.Time)
                       /\ IsRate(b.Disk.ReadSpeed, b.Disk.ReadBytes,
                                 a.Disk.ReadBytes, b.Time, a.Time)
                       /\ IsRate(b.Disk.WriteSpeed, b.Disk.WriteBytes,
                                 a.Disk.WriteBytes, b.Time, a.Time)
            /\ metricsCache[id].LastUpdate = h[n].Time
            /\ metricsCache[id].LastDiskStats = h[n].Disk
            /\ metricsCache[id].LastNetStats = h[n].Network

\* a sample stored two ticks after the preceding one (the VM was stopped
\* in between), with speeds that are not 0
C26_Witness ==
    \E id \in DOMAIN metricsCache :
        /\ Len(History(id)) >= 2
        /\ History(id)[2].Time - History(id)[1].Time > MetricsPeriod
        /\ History(id)[2].Network.RXSpeed.num > 0
        /\ History(id)[2].Disk.ReadSpeed.num # 0

\* C27: a panic in any thread of the service starts the global cleanup of
\* all VMs (after which the panic is re-raised and the process dies).
C27_PanicRunsCleanup ==
    [][\A thread \in PanicThreads : Panic(thread) => phase' = "cleaning"]_vars

\* C28: a request whose X-API-Key is missing or wrong is answered 401, an
\* OPTIONS request 200, and neither reaches a handler: the VM store, the
\* ports, the host resources and the metrics cache are unchanged.
C28_UnauthorizedReachesNoHandler ==
    [][\A r \in Requests :
          (ServeHTTP(r) /\ (r.options \/ r.key # API_KEY))
              => /\ resp' = [op |-> r.op, id |-> r.id,
                             code |-> IF r.options THEN 200 ELSE 401]
                 /\ UNCHANGED << storeVars, hostVars, pc, reqClient, timers,
                                 metricsCache >>]_vars

\* a delete of a running VM was answered 401 and the VM is still there
C28_Witness ==
    /\ resp.op = "delete"
    /\ resp.code = 401
    /\ resp.id \in instances
    /\ vps[resp.id].Status = StatusRunning
    /\ QemuAlive(resp.id)

\* the characters of s from position i up to the next "." or the end
LabelFrom(s, i) ==
    LET stop == { j \in i..Len(s) : s[j] = "." }
        last == IF stop = {} THEN Len(s)
                ELSE (CHOOSE j \in stop : \A k \in stop : j <= k) - 1
    IN  SubSeq(s, i, last)

\* the positions of s at which a label starts
LabelStarts(s) == { 1 } \cup { i + 1 : i \in { j \in 1..Len(s) : s[j] = "." } }

\* total length <= 253; every label has 1..63 characters, all letters,
\* digits or "-", and neither starts nor ends with "-"
WellFormedName(s) ==
    /\ Len(s) <= 253
    /\ \A i \in LabelStarts(s) :
           LET label == LabelFrom(s, i)
           IN  /\ Len(label) \in 1..63
               /\ \A k \in 1..Len(label) :
                      label[k] \in Letters \cup Digits \cup { "-" }
               /\ label[1] # "-"
               /\ label[Len(label)] # "-"

\* C29: isValidHostname accepts exactly the well-formed names; it accepts
\* a, a.b and a-b.c1 and rejects the empty string, -a, a-, labels over 63
\* characters, names over 253 characters and names with "_" or "/".
C29_HostnameAcceptance ==
    ret # << >>
        => /\ ret[1] = WellFormedName(arg)
           /\ arg \in { << "a" >>, << "a", ".", "a" >>,
                         << "a", "-", "b", ".", "c", "1" >> } => ret[1] = TRUE
           /\ arg \in { << >>, << "-", "a" >>, << "a", "-" >> } => ret[1] = FALSE
           /\ (\E i \in LabelStarts(arg) : Len(LabelFrom(arg, i)) > 63)
                  => ret[1] = FALSE
           /\ Len(arg) > 253 => ret[1] = FALSE
           /\ (\E k \in 1..Len(arg) : arg[k] \in { "_", "/" }) => ret[1] = FALSE

\* a name of 253 characters in labels of at most 63 was accepted
C29_Witness ==
    /\ ret = << TRUE >>
    /\ Len(arg) = 253

C31_BridgeFailureNotFatal ==
    /\ [][\A id \in Created :
            (pc[id] = "bridge" /\ P_Bridge(id))
                => /\ pc'[id] = "done100"
                   /\ pipeErr'[id] = pipeErr[id]
                   /\ vps'[id] = vps[id]]_vars
    /\ \A id \in IDs :
           (/\ id \in Created
            /\ pc[id] = "done100"
            /\ WsPort(vps[id].VNCPort) \notin bridges)
               ~> (/\ id \in Created
                   /\ pc[id] = "done"
                   /\ vps[id].Status = StatusRunning
                   /\ vps[id].Stage = StageCompleted
                   /\ vps[id].Progress = 100
                   /\ vps[id].ErrorMsg = ""
                   /\ id \in DOMAIN timers)

\* a creation that ended running with no bridge on its port
C31_Witness ==
    \E id \in instances :
        /\ pc[id] = "done"
        /\ vps[id].Status = StatusRunning
        /\ vps[id].Progress = 100
        /\ vps[id].ErrorMsg = ""
        /\ id \in DOMAIN timers
        /\ WsPort(vps[id].VNCPort) \notin bridges

(***************************************************************************)
(* C32: StartVPS on a stopped VM.  Where it succeeds the status goes      *)
(* stopped -> starting -> running, qemu_pid becomes the pid of the QEMU    *)
(* process this call spawned and the two ports stay as they were; where    *)
(* it fails the answer is an error, the status is stopped and qemu_pid is  *)
(* what it was.                                                            *)
(***************************************************************************)
C32_StartFromStopped ==
    [][\A id \in instances :
        /\ (vps[id].Status = StatusStopped /\ StartVPS_Spawn(id)) =>
              \/ /\ vps'[id] = [vps[id] EXCEPT !.Status = StatusStarting]
                 /\ starter'.id = id
              \/ /\ resp' = Respond("start", id, 500)
                 /\ vps'[id] = vps[id]
        /\ (starter.from = StatusStopped /\ StartVPS_Verify(id)) =>
              IF resp'.code = 200
              THEN /\ vps[id].Status = StatusStarting
                   /\ vps'[id].Status = StatusRunning
                   /\ starter.cmd # 0
                   /\ vps'[id].QEMUPid = starter.cmd
                   /\ vps'[id].VNCPort = vps[id].VNCPort
                   /\ vps'[id].SSHPort = vps[id].SSHPort
              ELSE /\ vps'[id].Status = StatusStopped
                   /\ vps'[id].QEMUPid = vps[id].QEMUPid
      ]_vars

\* C33: no thread holds the record-store lock while it performs a blocking
\* external action: while a StartVPS call is between its cmd.Start() and the
\* end of its pidfile poll and verification, the lock is free, so a list
\* call is not kept waiting for it.
C33_NoLockAcrossBlocking ==
    \A id \in IDs :
        starter.id = id => (mutex = "free" /\ ENABLED handleListVPS)

\* C34: no thread holds the record-store lock and the metrics-cache lock at
\* the same time: the collector has released m.mutex when it takes
\* m.metricsMutex, and neither a StartVPS call nor the shutdown cleanup, which
\* hold m.mutex, is the holder of m.metricsMutex.
C34_NeverBothLocks ==
    /\ \A thread \in { "collector", "start", "cleanup" } :
           ~(mutex = thread /\ metricsMutex = thread)
    /\ collector = "rlocked" => mutex = "collector" /\ metricsMutex = "free"
    /\ collector = "mlocked" => metricsMutex = "collector" /\ mutex # "collector"

\* the collector holds the metrics-cache lock with a sample in hand while a
\* StartVPS call holds the record-store lock
C34_Witness ==
    /\ collector = "mlocked"
    /\ metricsMutex = "collector"
    /\ sample # NoSample
    /\ mutex = "start"

\* C35: every write to a field of a stored record is made by a thread that
\* holds the record-store lock: a step that changes a record is taken either
\* when the lock is free for the writer to take, or by the StartVPS call
\* that holds it, never while another thread holds the lock.
C35_WritesUnderLock ==
    [][\A id \in Created :
          (id \in DOMAIN vps' /\ vps'[id] # vps[id])
              => \/ mutex = "free"
                 \/ mutex = "start" /\ StartVPS_Verify(id)]_vars

\* C36: a stop watcher kills only the QEMU process that was vps.QEMUPid when
\* its StopVPS call was made, and it does not set the status of a VM that
\* has been started again since (whose QEMUPid is another process) to
\* stopped.
C36_WatcherKillsOwnProcess ==
    [][\A w \in watchers :
          /\ WatcherTimeout(w) =>
                 \A p \in DOMAIN procs : p # w.pid => procs'[p] = procs[p]
          /\ (WatcherSet(w) /\ vps[w.vm].QEMUPid # w.pid) =>
                 vps'[w.vm].Status = vps[w.vm].Status]_vars

\* C37: at every moment at most one QEMU process is alive for any VM id.
C37_OneLiveQemuPerVM ==
    \A id \in IDs :
        Cardinality({ p \in DOMAIN procs :
                         procs[p].vm = id /\ procs[p].alive }) <= 1

\* C38: a list call changes the status only of records whose QEMU process
\* had been started (QEMUPid > 0) and is no longer alive, and only to
\* stopped; it leaves a record in status creating or failed as it is and
\* changes no other field.
C38_ListOnlyStopsDeadStarted ==
    [][handleListVPS =>
          \A id \in Created :
              \/ vps'[id] = vps[id]
              \/ /\ vps[id].QEMUPid > 0
                 /\ ~checkProcess(vps[id].QEMUPid)
                 /\ vps[id].Status \notin { "creating", "failed" }
                 /\ vps'[id] = [vps[id] EXCEPT !.Status = StatusStopped]]_vars

\* C39: the metrics cache holds entries only for VM ids present in the record
\* store: once no collector pass is in flight, every id with a cache entry
\* is a stored VM, and the metrics endpoint answers 404 for any other id.
C39_CacheOnlyForStoredVMs ==
    /\ []((collector = "idle" /\ sample = NoSample /\ metricsMutex = "free")
             => DOMAIN metricsCache \subseteq instances)
    /\ [][\A id \in IDs :
             (/\ handleGetMetrics_Lookup(id)
              /\ id \notin instances
              /\ collector = "idle"
              /\ sample = NoSample) => reader' = 0]_vars

====
